---- MODULE Spec2Model ----
(***************************************************************************)
(* Model of the registration core of crates/v1: the password pipeline      *)
(* (domain/value_obj/user_password.rs), the hashing helpers                *)
(* (utils/hashing.rs) and the registration transaction                     *)
(* (application/user/service.rs with infra/pg/*_repo.rs).                  *)
(*                                                                         *)
(* Text is a sequence of Unicode code points (naturals).  Byte lengths are *)
(* the UTF-8 lengths Rust's str::len reports.                              *)
(***************************************************************************)
EXTENDS Integers, Sequences, FiniteSets, TLC

(***************************************************************************)
(* Bounds of the model                                                     *)
(***************************************************************************)
\* largest number of filler characters appended to a secret core
MaxFill == 17
\* number of concurrent register calls
NumCalls == 2

(***************************************************************************)
(* Text helpers                                                            *)
(***************************************************************************)
None == [kind |-> "None"]

\* str::len contribution of one char: its UTF-8 encoded length
Utf8Len(c) ==
  IF c < 128 THEN 1 ELSE IF c < 2048 THEN 2 ELSE IF c < 65536 THEN 3 ELSE 4

RECURSIVE ByteLen(_)
\* str::len : length in bytes
ByteLen(s) == IF s = <<>> THEN 0 ELSE Utf8Len(Head(s)) + ByteLen(Tail(s))

\* str::chars().count() : length in characters
CharLen(s) == Len(s)

\* char::is_whitespace (Unicode White_Space), as used by str::trim
IsWhitespace(c) ==
  \/ c \in 9..13
  \/ c \in {32, 133, 160, 5760, 8232, 8233, 8239, 8287, 12288}
  \/ c \in 8192..8202

RECURSIVE TrimStart(_)
TrimStart(s) ==
  IF s # <<>> /\ IsWhitespace(Head(s)) THEN TrimStart(Tail(s)) ELSE s

RECURSIVE TrimEnd(_)
TrimEnd(s) ==
  IF s # <<>> /\ IsWhitespace(s[Len(s)])
    THEN TrimEnd(SubSeq(s, 1, Len(s) - 1))
    ELSE s

\* str::trim
Trim(s) == TrimEnd(TrimStart(s))

\* char::to_lowercase for the ASCII and Latin-1 letters of the model alphabet
LowerChar(c) ==
  IF c \in 65..90 THEN c + 32
  ELSE IF c \in 192..222 /\ c # 215 THEN c + 32
  ELSE c

\* str::to_lowercase
ToLowercase(s) == [i \in 1..Len(s) |-> LowerChar(s[i])]

\* str::contains(&str): the empty pattern is contained in every text
Contains(s, t) ==
  \E i \in 0..(Len(s) - Len(t)) : SubSeq(s, i + 1, i + Len(t)) = t

RECURSIVE Repeat(_, _)
Repeat(c, n) == IF n = 0 THEN <<>> ELSE <<c>> \o Repeat(c, n - 1)

\* unicode general categories Control / Format / Surrogate / PrivateUse /
\* LineSeparator / ParagraphSeparator, for the planes the alphabet touches
IsControl(c) == c \in 0..31 \/ c \in 127..159
IsFormat(c) ==
  \/ c \in {173, 1564, 1757, 1807, 6158, 65279}
  \/ c \in 1536..1541
  \/ c \in 8203..8207
  \/ c \in 8234..8238
  \/ c \in 8288..8292
  \/ c \in 8294..8303
  \/ c \in 65529..65531
IsSurrogate(c) == c \in 55296..57343
IsPrivateUse(c) == c \in 57344..63743
IsSeparatorLineOrPara(c) == c \in {8232, 8233}

\* utils::string::is_forbidden_char
is_forbidden_char(c) ==
  IF IsFormat(c) /\ c \in {8204, 8205} THEN FALSE
  ELSE IF IsControl(c) \/ IsFormat(c) \/ IsSurrogate(c) \/ IsPrivateUse(c)
          \/ IsSeparatorLineOrPara(c) THEN TRUE
  ELSE \/ c \in 8234..8238
       \/ c \in 8294..8297
       \/ c \in {8206, 8207}
       \/ c \in 917504..917631
       \/ c \in 64976..65007
       \/ c % 65536 \in {65534, 65535}

(***************************************************************************)
(* Birth date rendering (chrono format "%Y%m%d" and "%m%d")                *)
(***************************************************************************)
Digit(n) == 48 + n

Pad2(n) == <<Digit(n \div 10), Digit(n % 10)>>

Pad4(n) ==
  <<Digit(n \div 1000), Digit((n \div 100) % 10),
    Digit((n \div 10) % 10), Digit(n % 10)>>

FormatYmd(b) == Pad4(b.y) \o Pad2(b.m) \o Pad2(b.d)

FormatMd(b) == Pad2(b.m) \o Pad2(b.d)

(***************************************************************************)
(* UserPassword::new                                                       *)
(***************************************************************************)
MIN_LEN == 8
MAX_LEN == 64
\* Score::Three
MIN_ZXCVBN_SCORE == 3

\* Err(AppError::UnprocessableContent(Some(<message of the rule>)))
Err(reason) ==
  [kind |-> "Err", variant |-> "UnprocessableContent", reason |-> reason]

Some(v) == [kind |-> "Some", value |-> v]

\* the length test of UserPassword::new: TRUE when the secret is rejected
LengthRejected(password) ==
  ByteLen(password) < MIN_LEN \/ ByteLen(password) > MAX_LEN

\* the user-name test of UserPassword::new
ContainsUserName(lower_password, user_name) ==
  Contains(lower_password, ToLowercase(ToLowercase(user_name)))

\* the birth-date test of UserPassword::new
ContainsBirthDate(lower_password, birth_date) ==
  /\ birth_date # None
  /\ \/ Contains(lower_password, FormatYmd(birth_date))
     \/ Contains(lower_password, FormatMd(birth_date))

\* the forbidden-character test of UserPassword::new
HasForbiddenChar(lower_password) ==
  \E i \in 1..Len(lower_password) : is_forbidden_char(lower_password[i])

\* UserPassword::new(input, required, user_name, birth_date); score is the
\* zxcvbn estimate of the trimmed secret with the user name as user input
\* UserPassword::new with the empty check not looking at required
UserPasswordNew_emptyAbsent(input, required, user_name, birth_date, score) ==
  LET password == Trim(input)
      lower_password == ToLowercase(password)
  IN  IF password = <<>> THEN None
      ELSE IF LengthRejected(password) THEN Err(<<"user_password", "length">>)
      ELSE IF ContainsUserName(lower_password, user_name) THEN Err(<<"user_password", "username">>)
      ELSE IF ContainsBirthDate(lower_password, birth_date)
        THEN Err(<<"user_password", "birthdate">>)
      ELSE IF HasForbiddenChar(lower_password) THEN Err(<<"user_password", "forbidden">>)
      ELSE IF score < MIN_ZXCVBN_SCORE THEN Err(<<"user_password", "strength">>)
      ELSE Some(password)

UserPasswordNew(input, required, user_name, birth_date, score) ==
  LET password == Trim(input)
      lower_password == ToLowercase(password)
  IN  IF password = <<>> /\ ~required THEN None
      ELSE IF LengthRejected(password) THEN Err(<<"user_password", "length">>)
      ELSE IF ContainsUserName(lower_password, user_name) THEN Err(<<"user_password", "username">>)
      ELSE IF ContainsBirthDate(lower_password, birth_date) THEN Err(<<"user_password", "birthdate">>)
      ELSE IF HasForbiddenChar(lower_password) THEN Err(<<"user_password", "forbidden">>)
      ELSE IF score < MIN_ZXCVBN_SCORE THEN Err(<<"user_password", "strength">>)
      ELSE Some(password)

(***************************************************************************)
(* utils/hashing.rs                                                        *)
(***************************************************************************)
\* str::as_bytes of one char: its UTF-8 encoding
Utf8(c) ==
  IF c < 128 THEN <<c>>
  ELSE IF c < 2048 THEN <<192 + (c \div 64), 128 + (c % 64)>>
  ELSE IF c < 65536
    THEN <<224 + (c \div 4096), 128 + ((c \div 64) % 64), 128 + (c % 64)>>
  ELSE <<240 + (c \div 262144), 128 + ((c \div 4096) % 64),
         128 + ((c \div 64) % 64), 128 + (c % 64)>>

RECURSIVE as_bytes(_)
\* str::as_bytes
as_bytes(s) == IF s = <<>> THEN <<>> ELSE Utf8(Head(s)) \o as_bytes(Tail(s))

\* argon2_config(): Params::new(19456, 3, 1, None), Argon2id, V0x13
argon2_config ==
  [alg |-> "argon2id", v |-> 19, m |-> 19456, t |-> 3, p |-> 1]

\* The Argon2 digest of (password bytes, salt) under the given parameters,
\* idealised as collision free: the digest names its complete input.
Argon2Digest(cfg, bytes, salt) == <<"digest", cfg, salt, bytes>>

\* PasswordHash::to_string: the PHC string $alg$v=..$m=..,t=..,p=..$salt$hash
PhcString(cfg, salt, digest) ==
  <<"$", cfg.alg, "$v=", cfg.v, "$m=", cfg.m, ",t=", cfg.t, ",p=", cfg.p,
    "$", salt, "$", digest>>

\* PasswordHash::new(&str): Err for text that is not a PHC string
PasswordHashParse(hashed) ==
  IF /\ Len(hashed) = 14
     /\ hashed[1] = "$" /\ hashed[3] = "$v=" /\ hashed[5] = "$m="
     /\ hashed[7] = ",t=" /\ hashed[9] = ",p=" /\ hashed[11] = "$"
     /\ hashed[13] = "$"
    THEN [kind |-> "Ok",
          cfg |-> [alg |-> hashed[2], v |-> hashed[4], m |-> hashed[6],
                   t |-> hashed[8], p |-> hashed[10]],
          salt |-> hashed[12],
          hash |-> hashed[14]]
    ELSE [kind |-> "Err"]

\* hashing(plain) with the salt SaltString::generate drew
hashing(plain, salt) ==
  PhcString(argon2_config, salt,
            Argon2Digest(argon2_config, as_bytes(plain), salt))

\* Argon2::verify_password: recompute with the parsed parameters and salt
\* and compare; an unsupported algorithm is an error other than Password
verify_password(bytes, parsed) ==
  IF parsed.cfg.alg # "argon2id" THEN "Algorithm"
  ELSE IF Argon2Digest(parsed.cfg, bytes, parsed.salt) = parsed.hash THEN "Ok"
  ELSE "Password"

\* verify_hashed with the candidate trimmed before it is verified
verify_hashed_trimmed(plain, hashed) ==
  LET parsed == PasswordHashParse(hashed)
  IN  IF parsed.kind = "Err"
        THEN [kind |-> "Err", variant |-> "UnprocessableContent",
              reason |-> "bad hash string"]
      ELSE LET v == verify_password(as_bytes(Trim(plain)), parsed)
           IN  IF v = "Ok" THEN [kind |-> "Ok"]
               ELSE IF v = "Password"
                 THEN [kind |-> "Err", variant |-> "Unauthorized",
                       reason |-> "password mismatch"]
               ELSE [kind |-> "Err", variant |-> "InternalServerError",
                     reason |-> "Hash verify error"]

\* verify_hashed(plain, hashed)
verify_hashed(plain, hashed) ==
  LET parsed == PasswordHashParse(hashed)
  IN  IF parsed.kind = "Err"
        THEN [kind |-> "Err", variant |-> "UnprocessableContent",
              reason |-> "bad hash string"]
      ELSE LET v == verify_password(as_bytes(plain), parsed)
           IN  IF v = "Ok" THEN [kind |-> "Ok"]
               ELSE IF v = "Password"
                 THEN [kind |-> "Err", variant |-> "Unauthorized",
                       reason |-> "password mismatch"]
               ELSE [kind |-> "Err", variant |-> "InternalServerError",
                     reason |-> "Hash verify error"]

(***************************************************************************)
(* Value constructors                                                      *)
(***************************************************************************)
\* NormalizedString::new(input, required, target, min, max): trim, then
\* absent / required, then the length bounds (a bound of None is no bound)
NormalizedStringNew(input, required, target, min, max) ==
  LET t == Trim(input)
  IN  IF t = <<>> THEN (IF required THEN Err(<<target, "required">>) ELSE None)
      ELSE IF min.kind = "Some" /\ CharLen(t) < min.value
        THEN Err(<<target, "length">>)
      ELSE IF max.kind = "Some" /\ CharLen(t) > max.value
        THEN Err(<<target, "length">>)
      ELSE Some(t)

IsAsciiDigit(c) == c \in 48..57
IsAsciiLetter(c) == c \in 65..90 \/ c \in 97..122
\* [A-Za-z0-9_]
IsWordChar(c) == IsAsciiLetter(c) \/ IsAsciiDigit(c) \/ c = 95
\* [A-Za-z0-9_+\-]
IsWordPlusMinus(c) == IsWordChar(c) \/ c \in {43, 45}

RECURSIVE UserNameMiddle(_)
\* (?:[A-Za-z0-9_+\-]|\.[A-Za-z0-9_+\-])*
UserNameMiddle(m) ==
  IF m = <<>> THEN TRUE
  ELSE IF IsWordPlusMinus(Head(m)) THEN UserNameMiddle(Tail(m))
  ELSE IF Head(m) = 46 /\ Len(m) >= 2 /\ IsWordPlusMinus(m[2])
    THEN UserNameMiddle(Tail(Tail(m)))
  ELSE FALSE

\* USER_NAME_REGEX.is_match
USER_NAME_REGEX(s) ==
  \/ Len(s) = 1 /\ IsWordChar(s[1])
  \/ /\ Len(s) >= 2
     /\ IsWordChar(s[1])
     /\ IsWordChar(s[Len(s)])
     /\ UserNameMiddle(SubSeq(s, 2, Len(s) - 1))

\* \d of the regex crate: any Unicode decimal digit (ASCII, Arabic-Indic,
\* fullwidth are the ones of the model alphabet)
IsUnicodeDigit(c) == c \in 48..57 \/ c \in 1632..1641 \/ c \in 65296..65305

\* PHONE_NUMBER_REGEX.is_match: ^0\d{9,10}$
PHONE_NUMBER_REGEX(s) ==
  /\ Len(s) \in 10..11
  /\ s[1] = 48
  /\ \A i \in 2..Len(s) : IsUnicodeDigit(s[i])

\* [A-Za-z] under (?i): simple case folding adds U+017F and U+212A
IsLetterCI(c) == IsAsciiLetter(c) \/ c \in {383, 8490}
IsAlnumCI(c) == IsLetterCI(c) \/ IsAsciiDigit(c)
IsEmailAtom(c) == IsAlnumCI(c) \/ c \in {95, 43, 45}

\* [A-Za-z0-9_+\-]+(?:\.[A-Za-z0-9_+\-]+)*
EmailLocal(l) ==
  /\ l # <<>>
  /\ \A i \in 1..Len(l) : IsEmailAtom(l[i]) \/ l[i] = 46
  /\ l[1] # 46 /\ l[Len(l)] # 46
  /\ \A i \in 1..(Len(l) - 1) : ~(l[i] = 46 /\ l[i + 1] = 46)

\* (?:[A-Za-z0-9](?:[A-Za-z0-9\-]*[A-Za-z0-9])?\.)+[A-Za-z]{2,}
EmailDomain(d) ==
  LET dots == {i \in 1..Len(d) : d[i] = 46}
      lastDot == CHOOSE i \in dots : \A j \in dots : j <= i
  IN  /\ dots # {}
      /\ \A i \in 1..Len(d) : IsAlnumCI(d[i]) \/ d[i] \in {45, 46}
      /\ d[1] # 46
      /\ IsAlnumCI(d[1])
      /\ \A i \in dots : /\ i > 1 /\ IsAlnumCI(d[i - 1])
                         /\ i < Len(d) /\ IsAlnumCI(d[i + 1])
      /\ Len(d) - lastDot >= 2
      /\ \A i \in (lastDot + 1)..Len(d) : IsLetterCI(d[i])

\* EMAIL_ADDRESS_REGEX.is_match
EMAIL_ADDRESS_REGEX(s) ==
  LET ats == {i \in 1..Len(s) : s[i] = 64}
  IN  /\ Cardinality(ats) = 1
      /\ LET at == CHOOSE i \in ats : TRUE
         IN  /\ EmailLocal(SubSeq(s, 1, at - 1))
             /\ at < Len(s)
             /\ EmailDomain(SubSeq(s, at + 1, Len(s)))

\* UserName::new
UserNameNew(input, required) ==
  LET user_name_opt == NormalizedStringNew(input, required, "user_name", Some(3), Some(64))
  IN  IF user_name_opt.kind # "Some" THEN user_name_opt
      ELSE IF ~USER_NAME_REGEX(user_name_opt.value)
        THEN Err(<<"user_name", "pattern">>)
      ELSE user_name_opt

\* EmailAddress::new matching the pattern against the input as passed
EmailAddressNew_rawMatch(input, required) ==
  LET email_opt == NormalizedStringNew(input, required, "email_address", Some(6), Some(254))
  IN  IF email_opt.kind # "Some" THEN email_opt
      ELSE IF ~EMAIL_ADDRESS_REGEX(input)
        THEN Err(<<"email_address", "pattern">>)
      ELSE email_opt

\* EmailAddress::new
EmailAddressNew(input, required) ==
  LET email_opt == NormalizedStringNew(input, required, "email_address", Some(6), Some(254))
  IN  IF email_opt.kind # "Some" THEN email_opt
      ELSE IF ~EMAIL_ADDRESS_REGEX(email_opt.value)
        THEN Err(<<"email_address", "pattern">>)
      ELSE email_opt

\* PhoneNumber::new
PhoneNumberNew(input, required) ==
  LET phone_number_opt ==
        NormalizedStringNew(input, required, "phone_number", Some(10), Some(11))
  IN  IF phone_number_opt.kind # "Some" THEN phone_number_opt
      ELSE IF ~PHONE_NUMBER_REGEX(phone_number_opt.value)
        THEN Err(<<"phone_number", "pattern">>)
      ELSE phone_number_opt

\* UserFullName::new asking for the first name only when both middle and
\* last are given; the unreachable!() arm is then reached
UserFullNameNew_and(input_f, input_m, input_l) ==
  LET f_opt == NormalizedStringNew(input_f, FALSE, "FirstName", None, Some(64))
      m_opt == NormalizedStringNew(input_m, FALSE, "MiddleName", None, Some(64))
      l_opt == NormalizedStringNew(input_l, FALSE, "LastName", None, Some(64))
  IN  IF f_opt.kind = "Err" THEN f_opt
      ELSE IF m_opt.kind = "Err" THEN m_opt
      ELSE IF l_opt.kind = "Err" THEN l_opt
      ELSE IF f_opt = None /\ m_opt = None /\ l_opt = None THEN None
      ELSE IF f_opt = None /\ m_opt # None /\ l_opt # None
        THEN Err(<<"FirstName", "required">>)
      ELSE IF f_opt = None THEN [kind |-> "Panic"]
      ELSE Some([first_name |-> f_opt.value,
                 middle_name |-> m_opt,
                 last_name |-> l_opt])

\* UserFullName::new(input_f, input_m, input_l)
UserFullNameNew(input_f, input_m, input_l) ==
  LET f_opt == NormalizedStringNew(input_f, FALSE, "FirstName", None, Some(64))
      m_opt == NormalizedStringNew(input_m, FALSE, "MiddleName", None, Some(64))
      l_opt == NormalizedStringNew(input_l, FALSE, "LastName", None, Some(64))
  IN  IF f_opt.kind = "Err" THEN f_opt
      ELSE IF m_opt.kind = "Err" THEN m_opt
      ELSE IF l_opt.kind = "Err" THEN l_opt
      ELSE IF f_opt = None /\ m_opt = None /\ l_opt = None THEN None
      ELSE IF f_opt = None THEN Err(<<"FirstName", "required">>)
      ELSE Some([first_name |-> f_opt.value,
                 middle_name |-> m_opt,
                 last_name |-> l_opt])

\* UserId::new: every key the store or the sentinel supplies is accepted
UserIdNew(v) == IF v >= 0 THEN Some(v) ELSE Err(<<"user_id", "range">>)

(***************************************************************************)
(* utils/randomart.rs                                                      *)
(***************************************************************************)
ROWS == 9
COLS == 23
\* bytes of a SHA3-384 digest
DIGEST_LEN == 48

\* Sha3_384 of the identifier's bytes.  The digest is an idealised table: a
\* fixed byte string per identifier, the same at every evaluation.
Sha3_384(public_id) ==
  [i \in 1..DIGEST_LEN |->
     (public_id * 89 + i * 151 + public_id * i * i * 7 + ((i * i * i) % 97))
       % 256]

\* clamp wrapping around to the opposite border
Clamp_wrap(v, lo, hi) == lo + ((v - lo) % (hi - lo + 1))

\* i32::clamp
Clamp(v, lo, hi) == IF v < lo THEN lo ELSE IF v > hi THEN hi ELSE v

\* saturating_add(1) on a counter of four bits
SaturatingInc_u4(v) == IF v >= 15 THEN 15 ELSE v + 1

\* u8::saturating_add(1)
SaturatingInc(v) == IF v >= 255 THEN 255 ELSE v + 1

\* BishopStep with bit 0 selecting the row and bit 1 the column
BishopStep_swapped(st, pair) ==
  LET dy == IF pair % 2 # 0 THEN 1 ELSE -1
      dx == IF (pair \div 2) % 2 # 0 THEN 1 ELSE -1
      row == Clamp(st.row + dy, 0, ROWS - 1)
      col == Clamp(st.col + dx, 0, COLS - 1)
  IN  [grid |-> [st.grid EXCEPT ![row][col] = SaturatingInc(@)],
       row |-> row, col |-> col]

\* one pass of the inner loop body: the step for bit pair `pair`
BishopStep(st, pair) ==
  LET dx == IF pair % 2 # 0 THEN 1 ELSE -1
      dy == IF (pair \div 2) % 2 # 0 THEN 1 ELSE -1
      row == Clamp(st.row + dy, 0, ROWS - 1)
      col == Clamp(st.col + dx, 0, COLS - 1)
  IN  [grid |-> [st.grid EXCEPT ![row][col] = SaturatingInc(@)],
       row |-> row, col |-> col]

\* the inner loop "for _ in 0..4" for one byte: four steps, the byte
\* shifted right by two bits after each
BishopByte(st, byte) ==
  LET s1 == BishopStep(st, byte % 4)
      s2 == BishopStep(s1, (byte \div 4) % 4)
      s3 == BishopStep(s2, (byte \div 16) % 4)
  IN  BishopStep(s3, (byte \div 64) % 4)

RECURSIVE BishopWalk(_, _, _, _)
\* the outer loop "for &byte in data.iter()" over the bytes lo+1 .. hi of
\* data, from state st.  The range is halved and the state after the first
\* half computed before the second half starts, which keeps the evaluation
\* depth logarithmic; the bytes are still consumed in order.
BishopWalk(data, lo, hi, st) ==
  IF hi <= lo THEN st
  ELSE IF hi = lo + 1 THEN BishopByte(st, data[hi])
  ELSE LET mid == (lo + hi) \div 2
           half == BishopWalk(data, lo, mid, st)
       IN  IF half.row >= 0 THEN BishopWalk(data, mid, hi, half) ELSE half

\* _generate_drunken_bishop_grid: (grid, start_position, end_position)
generate_drunken_bishop_grid(data) ==
  LET start == [grid |-> [r \in 0..(ROWS - 1) |-> [c \in 0..(COLS - 1) |-> 0]],
                row |-> ROWS \div 2, col |-> COLS \div 2]
      fin == BishopWalk(data, 0, Len(data), start)
  IN  [grid |-> fin.grid,
       start |-> <<start.row, start.col>>,
       end |-> <<fin.row, fin.col>>]

\* make_border_with_msg padding both sides with the left pad
make_border_with_msg_even(cols, msg) ==
  IF Len(msg) >= cols THEN <<43>> \o msg \o <<43>>
  ELSE LET pad_left == (cols - Len(msg)) \div 2
       IN  <<43>> \o Repeat(45, pad_left) \o msg \o Repeat(45, pad_left)
             \o <<43>>

\* make_border_with_msg
make_border_with_msg(cols, msg) ==
  IF Len(msg) >= cols THEN <<43>> \o msg \o <<43>>
  ELSE LET pad_left == (cols - Len(msg)) \div 2
           pad_right == cols - Len(msg) - pad_left
       IN  <<43>> \o Repeat(45, pad_left) \o msg \o Repeat(45, pad_right)
             \o <<43>>

\* the count-to-symbol table " .o+=*BOX@%&#/^"
symbols == <<32, 46, 111, 43, 61, 42, 66, 79, 88, 64, 37, 38, 35, 47, 94>>

\* CellChar testing the end position before the start position
CellChar_endFirst(g, r, c) ==
  IF r = g.end[1] /\ c = g.end[2] THEN 69
  ELSE IF r = g.start[1] /\ c = g.start[2] THEN 83
  ELSE LET cnt == g.grid[r][c]
           idx == IF cnt < Len(symbols) - 1 THEN cnt ELSE Len(symbols) - 1
       IN  symbols[idx + 1]

\* the character rendered for cell (r, c)
CellChar(g, r, c) ==
  IF r = g.start[1] /\ c = g.start[2] THEN 83
  ELSE IF r = g.end[1] /\ c = g.end[2] THEN 69
  ELSE LET cnt == g.grid[r][c]
           idx == IF cnt < Len(symbols) - 1 THEN cnt ELSE Len(symbols) - 1
       IN  symbols[idx + 1]

\* one body line: '|' cells '|'
BodyLine(g, r) == <<124>> \o [c \in 1..COLS |-> CellChar(g, r, c - 1)] \o <<124>>

RECURSIVE JoinLines(_)
\* lines.join("\n")
JoinLines(lines) ==
  IF lines = <<>> THEN <<>>
  ELSE IF Len(lines) = 1 THEN lines[1]
  ELSE lines[1] \o <<10>> \o JoinLines(Tail(lines))

\* "[your_id]"
top_msg == <<91, 121, 111, 117, 114, 95, 105, 100, 93>>
\* "[SHA3-384]"
bottom_msg == <<91, 83, 72, 65, 51, 45, 51, 56, 52, 93>>

\* _render_drunken_bishop_art
render_drunken_bishop_art(g, top, bottom) ==
  JoinLines(<<make_border_with_msg(COLS, top)>>
            \o [r \in 1..ROWS |-> BodyLine(g, r - 1)]
            \o <<make_border_with_msg(COLS, bottom)>>)

\* generate_randomart
generate_randomart(public_id) ==
  render_drunken_bishop_art(
    generate_drunken_bishop_grid(Sha3_384(public_id)), top_msg, bottom_msg)

\* generate_randomart over the identifiers PublicId::new() hands out to the
\* register calls, evaluated once
RandomartOf == [p \in 1..(NumCalls + 1) |-> generate_randomart(p)]

(***************************************************************************)
(* domain/entity/user.rs                                                   *)
(***************************************************************************)
\* impl From<i16> for UserStatus: the `_` arm panics
UserStatusFromI16(v) ==
  CASE v = 0 -> Some("Active")
    [] v = 1 -> Some("Pending")
    [] v = 2 -> Some("Deactivated")
    [] v = 3 -> Some("Suspended")
    [] v = 4 -> Some("Deleted")
    [] v = 5 -> Some("Archived")
    [] OTHER -> [kind |-> "Panic"]

\* impl From<i16> for UserRole: the `_` arm panics
UserRoleFromI16(v) ==
  CASE v = 0 -> Some("User")
    [] v = 1 -> Some("Guest")
    [] v = 2 -> Some("Support")
    [] v = 3 -> Some("Moderator")
    [] v = 4 -> Some("Admin")
    [] v = 5 -> Some("SuperAdmin")
    [] OTHER -> [kind |-> "Panic"]

\* impl From<UserStatus> for i16
StatusToI16(st) ==
  CASE st = "Active" -> 0
    [] st = "Pending" -> 1
    [] st = "Deactivated" -> 2
    [] st = "Suspended" -> 3
    [] st = "Deleted" -> 4
    [] st = "Archived" -> 5

\* impl From<UserRole> for i16 numbering the roles in declaration order
\* (Guest, User, ..)
RoleToI16_declared(r) ==
  CASE r = "Guest" -> 0
    [] r = "User" -> 1
    [] r = "Support" -> 2
    [] r = "Moderator" -> 3
    [] r = "Admin" -> 4
    [] r = "SuperAdmin" -> 5

\* impl From<UserRole> for i16
RoleToI16(r) ==
  CASE r = "User" -> 0
    [] r = "Guest" -> 1
    [] r = "Support" -> 2
    [] r = "Moderator" -> 3
    [] r = "Admin" -> 4
    [] r = "SuperAdmin" -> 5

(***************************************************************************)
(* UserService::build_entities                                             *)
(***************************************************************************)
\* Option<String>::unwrap_or_default
UnwrapOrDefault(o) == IF o = None THEN <<>> ELSE o.value

\* opt.as_deref().map(|e| F(e, false)).transpose()?.flatten()
OptionalField(o, constructed) == IF o = None THEN None ELSE constructed

\* build_entities constructing the UserPassword before the UserName
build_entities_passwordFirst(req, now, public_id) ==
  LET user_name == UserNameNew(req.user_name, TRUE)
      password ==
        UserPasswordNew(req.password, TRUE, req.user_name, req.birth_date,
                        req.score)
      full_name ==
        UserFullNameNew(UnwrapOrDefault(req.first_name), <<>>,
                        UnwrapOrDefault(req.last_name))
      email ==
        OptionalField(req.email,
                      EmailAddressNew(UnwrapOrDefault(req.email), FALSE))
      phone ==
        OptionalField(req.phone,
                      PhoneNumberNew(UnwrapOrDefault(req.phone), FALSE))
      user_id == UserIdNew(0)
      user == [user_id |-> user_id.value,
               public_id |-> public_id,
               randomart |-> RandomartOf[public_id],
               user_name |-> user_name.value,
               full_name |-> full_name,
               email |-> email,
               phone |-> phone,
               birth_date |-> req.birth_date,
               status |-> "Pending",
               role |-> "User",
               last_login_at |-> None,
               created_at |-> now,
               updated_at |-> now]
      auth == [user_id |-> user_id.value,
               current_hash |-> password.value,
               prev_hash1 |-> None,
               prev_hash2 |-> None,
               login_fail_times |-> 0,
               created_at |-> now,
               updated_at |-> now]
  IN  IF Trim(req.user_name) = <<>> \/ Trim(req.password) = <<>>
        THEN Err(<<"user_name/password", "required">>)
      ELSE IF password.kind = "Err" THEN password
      ELSE IF user_name.kind = "Err" THEN user_name
      ELSE IF full_name.kind = "Err" THEN full_name
      ELSE IF email.kind = "Err" THEN email
      ELSE IF phone.kind = "Err" THEN phone
      ELSE IF user_id.kind = "Err" THEN user_id
      ELSE Some([user |-> user, auth |-> auth])

\* build_entities(req) with the clock reading now and the freshly generated
\* identifier public_id: Err(..) or Some((user, auth))
build_entities(req, now, public_id) ==
  LET user_name == UserNameNew(req.user_name, TRUE)
      password ==
        UserPasswordNew(req.password, TRUE, req.user_name, req.birth_date,
                        req.score)
      full_name ==
        UserFullNameNew(UnwrapOrDefault(req.first_name), <<>>,
                        UnwrapOrDefault(req.last_name))
      email ==
        OptionalField(req.email,
                      EmailAddressNew(UnwrapOrDefault(req.email), FALSE))
      phone ==
        OptionalField(req.phone,
                      PhoneNumberNew(UnwrapOrDefault(req.phone), FALSE))
      user_id == UserIdNew(0)
      user == [user_id |-> user_id.value,
               public_id |-> public_id,
               randomart |-> RandomartOf[public_id],
               user_name |-> user_name.value,
               full_name |-> full_name,
               email |-> email,
               phone |-> phone,
               birth_date |-> req.birth_date,
               status |-> "Pending",
               role |-> "User",
               last_login_at |-> None,
               created_at |-> now,
               updated_at |-> now]
      auth == [user_id |-> user_id.value,
               current_hash |-> password.value,
               prev_hash1 |-> None,
               prev_hash2 |-> None,
               login_fail_times |-> 0,
               created_at |-> now,
               updated_at |-> now]
  IN  IF Trim(req.user_name) = <<>> \/ Trim(req.password) = <<>>
        THEN Err(<<"user_name/password", "required">>)
      ELSE IF user_name.kind = "Err" THEN user_name
      ELSE IF password.kind = "Err" THEN password
      ELSE IF full_name.kind = "Err" THEN full_name
      ELSE IF email.kind = "Err" THEN email
      ELSE IF phone.kind = "Err" THEN phone
      ELSE IF user_id.kind = "Err" THEN user_id
      ELSE Some([user |-> user, auth |-> auth])

(***************************************************************************)
(* interfaces/http/error.rs: impl From<SqlxError> for AppError             *)
(***************************************************************************)
\* sqlx::Error values: the variant, the SQLSTATE of a Database error or the
\* io::ErrorKind of an Io error, and whether to_string() contains "timeout"
SqlxError(e, code, says_timeout) ==
  [e |-> e, code |-> code, says_timeout |-> says_timeout]

\* e.to_string(): the Display text of the error, which names what failed
\* and holds "timeout" when says_timeout
SqlxToString(err) ==
  "sqlx " \o err.e \o " " \o err.code
    \o (IF err.says_timeout THEN ": timeout" ELSE ": failed")

\* errors of acquiring a connection and sending BEGIN
BeginErrors ==
  {SqlxError("PoolTimedOut", "", TRUE),
   SqlxError("PoolClosed", "", FALSE),
   SqlxError("Io", "ConnectionReset", FALSE)}

\* errors of the users INSERT sent on the transaction's connection: unique,
\* not-null and check violations, timed-out I/O.  An INSERT .. VALUES ..
\* RETURNING that succeeds returns its one row, so fetch_one has no
\* RowNotFound here.
InsertUserErrors ==
  {SqlxError("Database", "23505", FALSE),
   SqlxError("Database", "23502", FALSE),
   SqlxError("Database", "23514", FALSE),
   SqlxError("Io", "TimedOut", TRUE)}

\* errors of the user_auths INSERT: foreign-key and unique violations, a
\* protocol error whose message contains "timeout"
InsertAuthErrors ==
  {SqlxError("Database", "23503", FALSE),
   SqlxError("Database", "23505", FALSE),
   SqlxError("Protocol", "", TRUE)}

\* errors of COMMIT: a serialization failure, a lost connection
CommitErrors ==
  {SqlxError("Database", "40001", FALSE),
   SqlxError("Io", "ConnectionReset", FALSE)}

\* the sqlx errors injected at the store boundary
SqlxErrors ==
  BeginErrors \cup InsertUserErrors \cup InsertAuthErrors \cup CommitErrors

\* From<SqlxError> reporting integrity violations as BadRequest
AppErrorFromSqlx_badRequest(err) ==
  CASE err.e = "RowNotFound" ->
         [kind |-> "Err", variant |-> "NotFound",
          reason |-> "Resource not found"]
    [] err.e \in {"PoolTimedOut", "PoolClosed"} ->
         [kind |-> "Err", variant |-> "RequestTimeout",
          reason |-> "Database timeout"]
    [] err.e = "Database" /\ err.code \in {"23505", "23503", "23502", "23514"} ->
         [kind |-> "Err", variant |-> "BadRequest",
          reason |-> "Integrity violation"]
    [] err.e = "Io" /\ err.code = "TimedOut" ->
         [kind |-> "Err", variant |-> "RequestTimeout",
          reason |-> "Database timeout"]
    [] OTHER ->
         [kind |-> "Err", variant |-> "InternalServerError",
          reason |-> "DB error"]

AppErrorFromSqlx(err) ==
  CASE err.e = "RowNotFound" ->
         [kind |-> "Err", variant |-> "NotFound",
          reason |-> "Resource not found"]
    [] err.e = "PoolTimedOut" ->
         [kind |-> "Err", variant |-> "RequestTimeout",
          reason |-> "Database timeout"]
    [] err.e = "Database" ->
         IF err.code \in {"23505", "23503", "23502", "23514"}
           THEN [kind |-> "Err", variant |-> "Conflict",
                 reason |-> "Integrity violation"]
           ELSE [kind |-> "Err", variant |-> "InternalServerError",
                 reason |-> "Database internal error"]
    [] err.e = "Io" /\ err.code = "TimedOut" ->
         [kind |-> "Err", variant |-> "RequestTimeout",
          reason |-> "Database timeout"]
    [] err.e = "PoolClosed" ->
         [kind |-> "Err", variant |-> "RequestTimeout",
          reason |-> "Database pool closed"]
    [] OTHER ->
         IF err.says_timeout
           THEN [kind |-> "Err", variant |-> "RequestTimeout",
                 reason |-> "Database timeout"]
           ELSE [kind |-> "Err", variant |-> "InternalServerError",
                 reason |-> "DB error: " \o SqlxToString(err)]

(***************************************************************************)
(* interfaces/http/error.rs: impl IntoResponse for AppError                *)
(***************************************************************************)
\* AppError::status_code, as_u16
status_code(variant) ==
  CASE variant = "BadRequest" -> 400
    [] variant = "Unauthorized" -> 401
    [] variant = "Forbidden" -> 403
    [] variant = "NotFound" -> 404
    [] variant = "RequestTimeout" -> 408
    [] variant = "Conflict" -> 409
    [] variant = "ImATeapot" -> 418
    [] variant = "UnprocessableContent" -> 422
    [] variant = "InternalServerError" -> 500

\* StatusCode::canonical_reason
canonical_reason(status) ==
  CASE status = 400 -> "Bad Request"
    [] status = 401 -> "Unauthorized"
    [] status = 403 -> "Forbidden"
    [] status = 404 -> "Not Found"
    [] status = 408 -> "Request Timeout"
    [] status = 409 -> "Conflict"
    [] status = 418 -> "I'm a teapot"
    [] status = 422 -> "Unprocessable Entity"
    [] status = 500 -> "Internal Server Error"

\* StatusCode::is_server_error
is_server_error(status) == status \in 500..599

\* into_response putting the detail into every body
into_response_withDetail(app) ==
  LET status == status_code(app.variant)
  IN  [status |-> status,
       message |-> canonical_reason(status),
       detail |-> app.detail,
       instance |-> None]

\* into_response: the ApiError body sent with the status (the timestamp is
\* the clock's and is left out); the detail of a 5xx error goes to the log
\* only
into_response(app) ==
  LET status == status_code(app.variant)
  IN  IF is_server_error(status)
        THEN [status |-> status,
              message |-> canonical_reason(status),
              detail |-> None,
              instance |-> None]
        ELSE [status |-> status,
              message |-> canonical_reason(status),
              detail |-> app.detail,
              instance |-> None]

(***************************************************************************)
(* infra/pg: the rows written by the two INSERT statements                 *)
(***************************************************************************)
\* Option<UserFullName> -> first_name column
FirstNameColumn(full_name) ==
  IF full_name = None THEN None ELSE Some(full_name.value.first_name)

\* Option<UserFullName> -> last_name column
LastNameColumn(full_name) ==
  IF full_name = None THEN None ELSE full_name.value.last_name

\* the users row of PgUserRepository::insert_tx; user_id is the value the
\* store generates (RETURNING user_id), call the register call writing it
UserRowOf(u, new_id, call) ==
  [user_id |-> new_id,
   public_id |-> u.public_id,
   randomart |-> u.randomart,
   user_name |-> u.user_name,
   first_name |-> FirstNameColumn(u.full_name),
   last_name |-> LastNameColumn(u.full_name),
   email |-> u.email,
   phone |-> u.phone,
   birth_date |-> u.birth_date,
   status |-> StatusToI16(u.status),
   role |-> RoleToI16(u.role),
   last_login_at |-> u.last_login_at,
   created_at |-> u.created_at,
   updated_at |-> u.updated_at,
   call |-> call]

\* the user_auths row of PgUserAuthRepository::insert_inner
AuthRowOf(a, call) ==
  [user_id |-> a.user_id,
   current_hashed_password |-> a.current_hash,
   prev_hashed_password_1 |-> a.prev_hash1,
   prev_hashed_password_2 |-> a.prev_hash2,
   login_fail_times |-> a.login_fail_times,
   created_at |-> a.created_at,
   updated_at |-> a.updated_at,
   call |-> call]

(***************************************************************************)
(* State                                                                   *)
(***************************************************************************)
VARIABLES
  \* one call of UserPassword::new
  pwInput,     \* the input argument, as passed
  pwRequired,  \* the required argument
  pwUserName,  \* the user_name argument, as passed
  pwBirth,     \* the birth_date argument (None or a date)
  pwScore,     \* the zxcvbn estimate for this input
  pwBuf,       \* memory of the plaintext buffer behind input
  pwPc,        \* "start" before the call, "returned" after it
  pwResult,    \* the returned AppResult<Option<UserPassword>>
  \* calls of hashing and verify_hashed
  hPlain,      \* the secret given to hashing
  hCandidate,  \* the secret given to verify_hashed
  hSalts,      \* the salts SaltString::generate drew, one per hashing call
  hHashes,     \* the strings hashing returned
  hVerified,   \* results of verify_hashed(hCandidate, hHashes[i])
  \* the store and the register calls
  users,       \* committed rows of table users
  auths,       \* committed rows of table user_auths
  seq,         \* last value of the users.user_id sequence
  clock,       \* Utc::now()
  nextPid,     \* the next identifier PublicId::new() generates
  pc,          \* per call: the operation register performs next
  req,         \* per call: the RegisterRequest
  user,        \* per call: the User entity (None before build_entities)
  auth,        \* per call: the UserAuth entity
  tx,          \* per call: the uncommitted writes of its transaction
  ops,         \* per call: the store operations issued so far
  result,      \* per call: the value register returned
  \* one call of a value constructor
  vCtor,       \* the constructor called
  vArgs,       \* its text arguments, as passed
  vRequired,   \* the required argument
  vPc,         \* "start" before the call, "returned" after it
  vResult,     \* the returned AppResult<Option<..>>
  \* one call of generate_randomart
  artId,       \* the public identifier
  artPc,       \* "start" before the call, "returned" after it
  artOut,      \* the returned string
  \* one read of a stored users row
  rdRow,       \* the row as stored
  rdOp,        \* the operation that read it
  rdPc,        \* "start" before the read, "returned" after it
  rdResult,    \* the value returned, or the panic that unwound
  \* one run of _generate_drunken_bishop_grid and of the rendering
  bwData,      \* the digest bytes
  bwByte,      \* number of bytes the outer loop has finished
  bwK,         \* number of passes of the inner loop done for the current byte
  bwB,         \* the local b: the current byte, shifted
  bwGrid,      \* the visit counters
  bwRow,       \* the current row
  bwCol,       \* the current column
  bwStart,     \* start_position
  bwEnd,       \* end_position (None until the loops are done)
  bwPc,        \* "walk", "render", "returned"
  bwArt,       \* the rendered string
  \* one error on its way to the HTTP response
  eSrc,        \* the sqlx::Error it starts from (None: none)
  eApp,        \* the AppError (None before the conversion)
  eBody,       \* the ApiError body of the response (None before it)
  ePc          \* "raised", "converted", "responded"

pwVars ==
  <<pwInput, pwRequired, pwUserName, pwBirth, pwScore, pwBuf, pwPc, pwResult>>

hashVars == <<hPlain, hCandidate, hSalts, hHashes, hVerified>>

storeVars == <<users, auths, seq>>

callVars == <<clock, nextPid, pc, req, user, auth, tx, ops, result>>

valVars == <<vCtor, vArgs, vRequired, vPc, vResult>>

artVars == <<artId, artPc, artOut>>

readVars == <<rdRow, rdOp, rdPc, rdResult>>

walkVars ==
  <<bwData, bwByte, bwK, bwB, bwGrid, bwRow, bwCol, bwStart, bwEnd, bwPc, bwArt>>

errVars == <<eSrc, eApp, eBody, ePc>>

auxVars == <<valVars, artVars, readVars, walkVars, errVars>>

vars == <<pwVars, hashVars, storeVars, callVars, auxVars>>

Calls == 1..NumCalls

NoTx == [open |-> FALSE, users |-> {}, auths |-> {}]

PwIdle ==
  /\ pwInput = <<>>
  /\ pwRequired = FALSE
  /\ pwUserName = <<>>
  /\ pwBirth = None
  /\ pwScore = 0
  /\ pwBuf = <<>>
  /\ pwPc = "idle"
  /\ pwResult = None

HashIdle ==
  /\ hPlain = <<>>
  /\ hCandidate = <<>>
  /\ hSalts = <<>>
  /\ hHashes = <<>>
  /\ hVerified = <<>>

RegIdle ==
  /\ users = {}
  /\ auths = {}
  /\ seq = 0
  /\ clock = 0
  /\ nextPid = 1
  /\ pc = [c \in Calls |-> "off"]
  /\ req = [c \in Calls |-> None]
  /\ user = [c \in Calls |-> None]
  /\ auth = [c \in Calls |-> None]
  /\ tx = [c \in Calls |-> NoTx]
  /\ ops = [c \in Calls |-> <<>>]
  /\ result = [c \in Calls |-> None]

ValIdle ==
  /\ vCtor = "none"
  /\ vArgs = <<>>
  /\ vRequired = FALSE
  /\ vPc = "idle"
  /\ vResult = None

ArtIdle ==
  /\ artId = 0
  /\ artPc = "idle"
  /\ artOut = <<>>

ReadIdle ==
  /\ rdRow = None
  /\ rdOp = "none"
  /\ rdPc = "idle"
  /\ rdResult = None

ErrIdle ==
  /\ eSrc = None
  /\ eApp = None
  /\ eBody = None
  /\ ePc = "idle"

WalkIdle ==
  /\ bwData = <<>>
  /\ bwByte = 0
  /\ bwK = 0
  /\ bwB = 0
  /\ bwGrid = <<>>
  /\ bwRow = 0
  /\ bwCol = 0
  /\ bwStart = <<0, 0>>
  /\ bwEnd = None
  /\ bwPc = "idle"
  /\ bwArt = <<>>

(***************************************************************************)
(* Inputs of the password pipeline                                         *)
(***************************************************************************)
\* U+200B ZERO WIDTH SPACE
ZWSP == 8203
s_bob == <<98, 111, 98>>
s_BoB == <<66, 111, 66>>
s_usr == <<117, 115, 114>>
s_0515 == <<48, 53, 49, 53>>
s_19900515 == <<49, 57, 57, 48>> \o s_0515

\* the parts of a secret that the content rules look at
SecretCores ==
  {<<>>, s_bob, s_BoB, s_0515, s_19900515, <<ZWSP>>, <<ZWSP>> \o s_bob}

\* filler characters of 1, 2 and 4 UTF-8 bytes: 'x', U+00E9, U+1F600
FillChars == {120, 233, 128512}

Pads == {<<>>, <<32>>}

Secrets ==
  {lead \o Repeat(f, n) \o core \o trail :
     lead \in Pads, f \in FillChars, n \in 0..MaxFill,
     core \in SecretCores, trail \in Pads}

UserNameArgs == {<<>>, s_bob, s_bob \o <<32>>, s_usr}

BirthDates == {None, [y |-> 1990, m |-> 5, d |-> 15]}

\* zxcvbn::Score values used: Two, Three, Four
Scores == 2..4

InitPassword ==
  /\ pwInput \in Secrets
  /\ pwRequired \in BOOLEAN
  /\ pwUserName \in UserNameArgs
  /\ pwBirth \in BirthDates
  /\ pwScore \in Scores
  /\ pwBuf = pwInput
  /\ pwPc = "start"
  /\ pwResult = None
  /\ HashIdle
  /\ RegIdle
  /\ ValIdle
  /\ ArtIdle
  /\ ReadIdle
  /\ WalkIdle
  /\ ErrIdle

\* one call of UserPassword::new: the function returns its result; no
\* statement of it writes to the memory behind input
UserPassword_new ==
  /\ pwPc = "start"
  /\ pwResult' =
       UserPasswordNew(pwInput, pwRequired, pwUserName, pwBirth, pwScore)
  /\ pwBuf' = pwBuf
  /\ pwPc' = "returned"
  /\ UNCHANGED <<pwInput, pwRequired, pwUserName, pwBirth, pwScore>>
  /\ UNCHANGED <<hashVars, storeVars, callVars>>
  /\ UNCHANGED auxVars

NextPassword == UserPassword_new

SpecPassword == InitPassword /\ [][NextPassword]_vars

(***************************************************************************)
(* UserService::register over the transactional store                      *)
(***************************************************************************)
s_strong == <<88, 113, 55, 33, 76, 109, 50, 36>>
s_bob12345 == s_bob \o <<49, 50, 51, 52, 53>>
s_email == <<97, 64, 98, 46, 99, 100>>
s_phone == <<48, 49, 50, 51, 52, 53, 54, 55, 56, 57>>

rq_plain ==
  [user_name |-> s_bob, password |-> s_strong, score |-> 4,
   first_name |-> None, last_name |-> None, email |-> None, phone |-> None,
   birth_date |-> None]

\* the RegisterRequest values the calls are made with
Requests ==
  {rq_plain,
   [rq_plain EXCEPT !.user_name = <<32>> \o s_usr \o <<32>>,
                    !.password = <<32>> \o s_strong \o s_usr,
                    !.first_name = Some(<<65, 108>>),
                    !.email = Some(s_email),
                    !.phone = Some(s_phone),
                    !.birth_date = [y |-> 1990, m |-> 5, d |-> 15]],
   [rq_plain EXCEPT !.user_name = <<97, 98>>],
   [rq_plain EXCEPT !.user_name = <<32, 97, 98>>,
                    !.password = <<97, 98, 120>>,
                    !.score = 2],
   [rq_plain EXCEPT !.user_name = <<32, 32>>],
   [rq_plain EXCEPT !.password = s_bob12345],
   [rq_plain EXCEPT !.score = 2],
   [rq_plain EXCEPT !.last_name = Some(<<76, 105>>)],
   [rq_plain EXCEPT !.email = Some(<<97, 64, 98>>)],
   [rq_plain EXCEPT !.phone = Some(<<49, 50, 51>>)]}

Init ==
  /\ PwIdle
  /\ HashIdle
  /\ ValIdle
  /\ ArtIdle
  /\ ReadIdle
  /\ WalkIdle
  /\ ErrIdle
  /\ users = {}
  /\ auths = {}
  /\ seq = 0
  /\ clock = 0
  /\ nextPid = 1
  /\ pc = [c \in Calls |-> "idle"]
  /\ req = [c \in Calls |-> None]
  /\ user = [c \in Calls |-> None]
  /\ auth = [c \in Calls |-> None]
  /\ tx = [c \in Calls |-> NoTx]
  /\ ops = [c \in Calls |-> <<>>]
  /\ result = [c \in Calls |-> None]

\* the store operation op, issued by call c, with its outcome
Issued(c, op, ok) ==
  [ops EXCEPT ![c] = Append(@, [op |-> op, ok |-> ok, err |-> None])]

\* the store operation op, issued by call c, failed with sqlx error e
IssuedFailed(c, op, e) ==
  [ops EXCEPT ![c] = Append(@, [op |-> op, ok |-> FALSE, err |-> e])]

\* register returns Err(e) to its caller
Failed(c, e) ==
  /\ pc' = [pc EXCEPT ![c] = "failed"]
  /\ result' = [result EXCEPT ![c] = e]

\* BuildRejected with the transaction begun before build_entities runs
BuildRejected_afterBegin(c) ==
  /\ pc[c] = "idle"
  /\ \E r \in Requests :
       LET built == build_entities(r, clock, nextPid)
       IN  /\ built.kind = "Err"
           /\ req' = [req EXCEPT ![c] = r]
           /\ result' = [result EXCEPT ![c] = built]
  /\ ops' = Issued(c, "begin", TRUE)
  /\ pc' = [pc EXCEPT ![c] = "rejected"]
  /\ UNCHANGED <<clock, nextPid, user, auth, tx>>
  /\ UNCHANGED <<storeVars, pwVars, hashVars>>
  /\ UNCHANGED auxVars

\* service.rs:45, build_entities returned Err: `?` returns it from register
BuildRejected(c) ==
  /\ pc[c] = "idle"
  /\ \E r \in Requests :
       LET built == build_entities(r, clock, nextPid)
       IN  /\ built.kind = "Err"
           /\ req' = [req EXCEPT ![c] = r]
           /\ result' = [result EXCEPT ![c] = built]
  /\ pc' = [pc EXCEPT ![c] = "rejected"]
  /\ UNCHANGED <<clock, nextPid, user, auth, tx, ops>>
  /\ UNCHANGED <<storeVars, pwVars, hashVars>>
  /\ UNCHANGED auxVars

\* service.rs:45, build_entities returned the two entities
BuildOk(c) ==
  /\ pc[c] = "idle"
  /\ \E r \in Requests :
       LET built == build_entities(r, clock, nextPid)
       IN  /\ built.kind = "Some"
           /\ req' = [req EXCEPT ![c] = r]
           /\ user' = [user EXCEPT ![c] = built.value.user]
           /\ auth' = [auth EXCEPT ![c] = built.value.auth]
  /\ clock' = clock + 1
  /\ nextPid' = nextPid + 1
  /\ pc' = [pc EXCEPT ![c] = "begin"]
  /\ UNCHANGED <<tx, ops, result>>
  /\ UNCHANGED <<storeVars, pwVars, hashVars>>
  /\ UNCHANGED auxVars

\* service.rs:48, pool.begin() succeeded
BeginOk(c) ==
  /\ pc[c] = "begin"
  /\ tx' = [tx EXCEPT ![c] = [open |-> TRUE, users |-> {}, auths |-> {}]]
  /\ ops' = Issued(c, "begin", TRUE)
  /\ pc' = [pc EXCEPT ![c] = "insert_user"]
  /\ UNCHANGED <<clock, nextPid, req, user, auth, result>>
  /\ UNCHANGED <<storeVars, pwVars, hashVars>>
  /\ UNCHANGED auxVars

\* service.rs:48, pool.begin() failed
BeginFail(c) ==
  /\ pc[c] = "begin"
  /\ \E e \in BeginErrors :
       /\ Failed(c, AppErrorFromSqlx(e))
       /\ ops' = IssuedFailed(c, "begin", e)
  /\ UNCHANGED <<clock, nextPid, req, user, auth, tx>>
  /\ UNCHANGED <<storeVars, pwVars, hashVars>>
  /\ UNCHANGED auxVars

\* the unique index on users.user_name: no committed row, and no row
\* pending in another open transaction, carries the name
UserNameFree(c, name) ==
  /\ \A u \in users : u.user_name # name
  /\ \A d \in Calls \ {c} : \A u \in tx[d].users : u.user_name # name

\* InsertUserOk without "auth.user_id = user.user_id": the generated key is
\* set on the User only
InsertUserOk_keyNotSet(c) ==
  /\ pc[c] = "insert_user"
  /\ UserNameFree(c, user[c].user_name)
  /\ LET new_id == seq + 1
         user_id == UserIdNew(new_id)
     IN  /\ user_id.kind = "Some"
         /\ seq' = new_id
         /\ tx' = [tx EXCEPT ![c].users = @ \cup {UserRowOf(user[c], new_id, c)}]
         /\ user' = [user EXCEPT ![c].user_id = user_id.value]
  /\ ops' = Issued(c, "insert_user", TRUE)
  /\ pc' = [pc EXCEPT ![c] = "insert_auth"]
  /\ UNCHANGED <<users, auths, clock, nextPid, req, result, auth>>
  /\ UNCHANGED <<pwVars, hashVars>>
  /\ UNCHANGED auxVars

\* InsertUserOk with the INSERT sent to the pool instead of the transaction
\* (the body of insert_ntx): the row is committed on its own
InsertUserOk_ntx(c) ==
  /\ pc[c] = "insert_user"
  /\ UserNameFree(c, user[c].user_name)
  /\ LET new_id == seq + 1
         user_id == UserIdNew(new_id)
     IN  /\ user_id.kind = "Some"
         /\ seq' = new_id
         /\ users' = users \cup {UserRowOf(user[c], new_id, c)}
         /\ user' = [user EXCEPT ![c].user_id = user_id.value]
         /\ auth' = [auth EXCEPT ![c].user_id = user_id.value]
  /\ ops' = Issued(c, "insert_user", TRUE)
  /\ pc' = [pc EXCEPT ![c] = "insert_auth"]
  /\ UNCHANGED <<auths, tx, clock, nextPid, req, result>>
  /\ UNCHANGED <<pwVars, hashVars>>
  /\ UNCHANGED auxVars

\* service.rs:51-55, the users INSERT succeeded inside the transaction and
\* returned the generated key, which is set on both entities
InsertUserOk(c) ==
  /\ pc[c] = "insert_user"
  /\ UserNameFree(c, user[c].user_name)
  /\ LET new_id == seq + 1
         user_id == UserIdNew(new_id)
     IN  /\ user_id.kind = "Some"
         /\ seq' = new_id
         /\ tx' = [tx EXCEPT ![c].users = @ \cup {UserRowOf(user[c], new_id, c)}]
         /\ user' = [user EXCEPT ![c].user_id = user_id.value]
         /\ auth' = [auth EXCEPT ![c].user_id = user_id.value]
  /\ ops' = Issued(c, "insert_user", TRUE)
  /\ pc' = [pc EXCEPT ![c] = "insert_auth"]
  /\ UNCHANGED <<users, auths, clock, nextPid, req, result>>
  /\ UNCHANGED <<pwVars, hashVars>>
  /\ UNCHANGED auxVars

\* InsertUserFail with the error of insert_tx logged instead of returned:
\* register goes on to the user_auths INSERT
InsertUserFail_continues(c) ==
  /\ pc[c] = "insert_user"
  /\ \E e \in InsertUserErrors :
       /\ ops' = IssuedFailed(c, "insert_user", e)
       /\ seq' = IF e.e = "Database" THEN seq + 1 ELSE seq
  /\ pc' = [pc EXCEPT ![c] = "insert_auth"]
  /\ UNCHANGED <<users, auths, clock, nextPid, req, user, auth, tx, result>>
  /\ UNCHANGED <<pwVars, hashVars>>
  /\ UNCHANGED auxVars

\* service.rs:51, the users INSERT failed: `?` returns and drops tx, whose
\* writes are rolled back; a constraint violation still consumes a key
InsertUserFail(c) ==
  /\ pc[c] = "insert_user"
  /\ \E e \in InsertUserErrors :
       /\ Failed(c, AppErrorFromSqlx(e))
       /\ ops' = IssuedFailed(c, "insert_user", e)
       /\ seq' = IF e.e = "Database" THEN seq + 1 ELSE seq
  /\ tx' = [tx EXCEPT ![c] = NoTx]
  /\ UNCHANGED <<users, auths, clock, nextPid, req, user, auth>>
  /\ UNCHANGED <<pwVars, hashVars>>
  /\ UNCHANGED auxVars

\* service.rs:56, the user_auths INSERT succeeded inside the transaction
InsertAuthOk(c) ==
  /\ pc[c] = "insert_auth"
  /\ tx' = [tx EXCEPT ![c].auths = @ \cup {AuthRowOf(auth[c], c)}]
  /\ ops' = Issued(c, "insert_auth", TRUE)
  /\ pc' = [pc EXCEPT ![c] = "commit"]
  /\ UNCHANGED <<clock, nextPid, req, user, auth, result>>
  /\ UNCHANGED <<storeVars, pwVars, hashVars>>
  /\ UNCHANGED auxVars

\* InsertAuthFail with the transaction committed before the error is
\* returned
InsertAuthFail_commits(c) ==
  /\ pc[c] = "insert_auth"
  /\ \E e \in InsertAuthErrors :
       /\ Failed(c, AppErrorFromSqlx(e))
       /\ ops' = IssuedFailed(c, "insert_auth", e)
  /\ users' = users \cup tx[c].users
  /\ auths' = auths \cup tx[c].auths
  /\ tx' = [tx EXCEPT ![c] = NoTx]
  /\ UNCHANGED <<seq, clock, nextPid, req, user, auth>>
  /\ UNCHANGED <<pwVars, hashVars>>
  /\ UNCHANGED auxVars

\* service.rs:56, the user_auths INSERT failed: `?` returns and drops tx
InsertAuthFail(c) ==
  /\ pc[c] = "insert_auth"
  /\ \E e \in InsertAuthErrors :
       /\ Failed(c, AppErrorFromSqlx(e))
       /\ ops' = IssuedFailed(c, "insert_auth", e)
  /\ tx' = [tx EXCEPT ![c] = NoTx]
  /\ UNCHANGED <<clock, nextPid, req, user, auth>>
  /\ UNCHANGED <<storeVars, pwVars, hashVars>>
  /\ UNCHANGED auxVars

\* CommitOk answering with the identifier generated last by any call
CommitOk_lastPid(c) ==
  /\ pc[c] = "commit"
  /\ users' = users \cup tx[c].users
  /\ auths' = auths \cup tx[c].auths
  /\ tx' = [tx EXCEPT ![c] = NoTx]
  /\ ops' = Issued(c, "commit", TRUE)
  /\ pc' = [pc EXCEPT ![c] = "done"]
  /\ result' = [result EXCEPT ![c] =
       [kind |-> "Ok", public_id |-> nextPid - 1,
        randomart |-> RandomartOf[nextPid - 1]]]
  /\ UNCHANGED <<seq, clock, nextPid, req, user, auth>>
  /\ UNCHANGED <<pwVars, hashVars>>
  /\ UNCHANGED auxVars

\* service.rs:59-65, tx.commit() succeeded: both rows become visible at
\* once and register returns the response
CommitOk(c) ==
  /\ pc[c] = "commit"
  /\ users' = users \cup tx[c].users
  /\ auths' = auths \cup tx[c].auths
  /\ tx' = [tx EXCEPT ![c] = NoTx]
  /\ ops' = Issued(c, "commit", TRUE)
  /\ pc' = [pc EXCEPT ![c] = "done"]
  /\ result' = [result EXCEPT ![c] =
       [kind |-> "Ok", public_id |-> user[c].public_id,
        randomart |-> user[c].randomart]]
  /\ UNCHANGED <<seq, clock, nextPid, req, user, auth>>
  /\ UNCHANGED <<pwVars, hashVars>>
  /\ UNCHANGED auxVars

\* service.rs:59, tx.commit() failed: nothing of the transaction is applied
CommitFail(c) ==
  /\ pc[c] = "commit"
  /\ \E e \in CommitErrors :
       /\ Failed(c, AppErrorFromSqlx(e))
       /\ ops' = IssuedFailed(c, "commit", e)
  /\ tx' = [tx EXCEPT ![c] = NoTx]
  /\ UNCHANGED <<clock, nextPid, req, user, auth>>
  /\ UNCHANGED <<storeVars, pwVars, hashVars>>
  /\ UNCHANGED auxVars

Next ==
  \E c \in Calls :
    \/ BuildRejected(c)
    \/ BuildOk(c)
    \/ BeginOk(c)
    \/ BeginFail(c)
    \/ InsertUserOk(c)
    \/ InsertUserFail(c)
    \/ InsertAuthOk(c)
    \/ InsertAuthFail(c)
    \/ CommitOk(c)
    \/ CommitFail(c)

Spec == Init /\ [][Next]_vars

(***************************************************************************)
(* Calls of hashing and verify_hashed                                      *)
(***************************************************************************)
\* number of distinct salts the generator can draw in the model
NumSalts == 3
\* number of hashing calls per behaviour
MaxHashes == 2

s_secret == <<115, 101, 99, 114, 101, 116>>
s_wrong == <<119, 114, 111, 110, 103>>

\* "secret", "wrong", "Secret", "secret ", "s\u{e9}cret", ""
HashSecrets ==
  {s_secret, s_wrong, <<83>> \o Tail(s_secret), s_secret \o <<32>>,
   <<115, 233>> \o SubSeq(s_secret, 3, 6), <<>>}

InitHashing ==
  /\ hPlain \in HashSecrets
  /\ hCandidate \in HashSecrets
  /\ hSalts = <<>>
  /\ hHashes = <<>>
  /\ hVerified = <<>>
  /\ PwIdle
  /\ RegIdle
  /\ ValIdle
  /\ ArtIdle
  /\ ReadIdle
  /\ WalkIdle
  /\ ErrIdle

\* hashing(hPlain): a salt is drawn at random and the PHC string returned
Hashing ==
  /\ Len(hHashes) < MaxHashes
  /\ hVerified = <<>>
  /\ \E salt \in 1..NumSalts :
       /\ hSalts' = Append(hSalts, salt)
       /\ hHashes' = Append(hHashes, hashing(hPlain, salt))
  /\ UNCHANGED <<hPlain, hCandidate, hVerified>>
  /\ UNCHANGED <<pwVars, storeVars, callVars>>
  /\ UNCHANGED auxVars

\* verify_hashed(hCandidate, h) for the next hash h not yet verified
VerifyHashed ==
  /\ Len(hVerified) < Len(hHashes)
  /\ hVerified' =
       Append(hVerified, verify_hashed(hCandidate, hHashes[Len(hVerified) + 1]))
  /\ UNCHANGED <<hPlain, hCandidate, hSalts, hHashes>>
  /\ UNCHANGED <<pwVars, storeVars, callVars>>
  /\ UNCHANGED auxVars

NextHashing == Hashing \/ VerifyHashed

SpecHashing == InitHashing /\ [][NextHashing]_vars

(***************************************************************************)
(* Calls of generate_randomart                                             *)
(***************************************************************************)
\* the public identifiers are 1..MaxPid
MaxPid == 120

InitRandomart ==
  /\ artId \in 1..MaxPid
  /\ artPc = "start"
  /\ artOut = <<>>
  /\ PwIdle
  /\ HashIdle
  /\ RegIdle
  /\ ValIdle
  /\ ReadIdle
  /\ WalkIdle
  /\ ErrIdle

\* one call of generate_randomart(artId)
GenerateRandomart ==
  /\ artPc = "start"
  /\ artOut' = generate_randomart(artId)
  /\ artPc' = "returned"
  /\ UNCHANGED <<artId, pwVars, hashVars, storeVars, callVars, valVars,
                 readVars, walkVars, errVars>>

NextRandomart == GenerateRandomart

SpecRandomart == InitRandomart /\ [][NextRandomart]_vars

(***************************************************************************)
(* _generate_drunken_bishop_grid, pass by pass, and the rendering          *)
(***************************************************************************)
\* digests of one repeated byte: 0x00 and 0xFF walk into opposite corners,
\* 0x55 and 0xAA into the other two, 0xCC returns to the centre after every
\* byte, 0x1B takes each of the four directions once per byte
ConstantDigestBytes == {0, 85, 170, 255, 204, 27}

\* the digests walked: those of the public identifiers and the constant ones
WalkDigests ==
  {Sha3_384(p) : p \in 1..MaxPid}
    \cup {Repeat(b, DIGEST_LEN) : b \in ConstantDigestBytes}

\* the state at randomart.rs:41, before the loops: the grid is zeroed and
\* the position is the centre, recorded as start_position
InitWalk ==
  /\ bwData \in WalkDigests
  /\ bwByte = 0
  /\ bwK = 0
  /\ bwB = 0
  /\ bwGrid = [r \in 0..(ROWS - 1) |-> [c \in 0..(COLS - 1) |-> 0]]
  /\ bwRow = ROWS \div 2
  /\ bwCol = COLS \div 2
  /\ bwStart = <<ROWS \div 2, COLS \div 2>>
  /\ bwEnd = None
  /\ bwPc = "walk"
  /\ bwArt = <<>>
  /\ PwIdle
  /\ HashIdle
  /\ RegIdle
  /\ ValIdle
  /\ ArtIdle
  /\ ReadIdle
  /\ ErrIdle

\* one pass of the inner loop (randomart.rs:44-53); the first pass for a
\* byte starts from "let mut b = byte"
WalkStep ==
  /\ bwPc = "walk"
  /\ bwByte < Len(bwData)
  /\ LET b == IF bwK = 0 THEN bwData[bwByte + 1] ELSE bwB
         st == BishopStep([grid |-> bwGrid, row |-> bwRow, col |-> bwCol],
                          b % 4)
     IN  /\ bwGrid' = st.grid
         /\ bwRow' = st.row
         /\ bwCol' = st.col
         /\ bwB' = b \div 4
  /\ bwK' = (bwK + 1) % 4
  /\ bwByte' = IF bwK = 3 THEN bwByte + 1 ELSE bwByte
  /\ UNCHANGED <<bwData, bwStart, bwEnd, bwPc, bwArt>>
  /\ UNCHANGED <<pwVars, hashVars, storeVars, callVars, valVars, artVars,
                 readVars, errVars>>

\* randomart.rs:56-57, the loops are done: the position is end_position
WalkReturn ==
  /\ bwPc = "walk"
  /\ bwByte = Len(bwData)
  /\ bwEnd' = <<bwRow, bwCol>>
  /\ bwPc' = "render"
  /\ UNCHANGED <<bwData, bwByte, bwK, bwB, bwGrid, bwRow, bwCol, bwStart,
                 bwArt>>
  /\ UNCHANGED <<pwVars, hashVars, storeVars, callVars, valVars, artVars,
                 readVars, errVars>>

\* randomart.rs:26, _render_drunken_bishop_art on the returned triple
RenderArt ==
  /\ bwPc = "render"
  /\ bwArt' =
       render_drunken_bishop_art(
         [grid |-> bwGrid, start |-> bwStart, end |-> bwEnd],
         top_msg, bottom_msg)
  /\ bwPc' = "returned"
  /\ UNCHANGED <<bwData, bwByte, bwK, bwB, bwGrid, bwRow, bwCol, bwStart,
                 bwEnd>>
  /\ UNCHANGED <<pwVars, hashVars, storeVars, callVars, valVars, artVars,
                 readVars, errVars>>

NextWalk ==
  \/ WalkStep
  \/ WalkReturn
  \/ RenderArt

SpecWalk == InitWalk /\ [][NextWalk]_vars

(***************************************************************************)
(* Calls of the value constructors                                         *)
(***************************************************************************)
\* longest handle text enumerated in full
MaxHandleLen == 4

\* 'a', '.', '_', '+'
HandleChars == {97, 46, 95, 43}

RECURSIVE TextsUpTo(_, _)
\* every text of at most n characters over alphabet
TextsUpTo(alphabet, n) ==
  IF n = 0 THEN {<<>>}
  ELSE LET shorter == TextsUpTo(alphabet, n - 1)
       IN  shorter \cup {Append(t, c) : t \in shorter, c \in alphabet}

\* leading and trailing whitespace: none, ' ', '\t' U+3000
WhitePads == {<<>>, <<32>>, <<9, 12288>>}

Padded(cores) == {lead \o core \o trail :
                    lead \in WhitePads, core \in cores, trail \in WhitePads}

\* handles: the short texts over HandleChars, texts at the length bounds,
\* upper case, an inner blank
HandleCores ==
  TextsUpTo(HandleChars, MaxHandleLen)
    \cup {Repeat(97, 64), Repeat(97, 65),
          Repeat(97, 62) \o <<46, 98>>, Repeat(97, 61) \o <<46, 98, 99>>,
          <<65, 98, 99>>, <<97, 32, 98>>, <<97, 45, 49>>}

\* "a@b.cd", "A@B.CD", "a@b", "a.@b.cd", "a b@c.de", "a@b.c-d", "aa@b.cde"
EmailCores ==
  {<<>>, s_email, <<65, 64, 66, 46, 67, 68>>, <<97, 64, 98>>,
   <<97, 46, 64, 98, 46, 99, 100>>, <<97, 32, 98, 64, 99, 46, 100, 101>>,
   <<97, 64, 98, 46, 99, 45, 100>>, <<97, 97, 64, 98, 46, 99, 100, 101>>}

\* "0123456789", "01234567890", "012345678901", "123", "1234567890",
\* "012345678" U+FF19, "01234 6789"
PhoneCores ==
  {<<>>, s_phone, s_phone \o <<48>>, s_phone \o <<48, 49>>, <<49, 50, 51>>,
   <<49, 50, 51, 52, 53, 54, 55, 56, 57, 48>>,
   <<48, 49, 50, 51, 52, 53, 54, 55, 56, 65305>>,
   <<48, 49, 50, 51, 52, 32, 54, 55, 56, 57>>}

\* "Xq7!Lm2$", "Xq7! Lm2$", "bob12345", "Xq7", "XQ7!LM2$"
PasswordCores ==
  {<<>>, s_strong, <<88, 113, 55, 33, 32, 76, 109, 50, 36>>, s_bob12345,
   <<88, 113, 55>>, <<88, 81, 55, 33, 76, 77, 50, 36>>}

\* "Al", "al", "A l", 64 and 65 characters
NameCores == {<<>>, <<65, 108>>, <<97, 108>>, <<65, 32, 108>>,
              Repeat(97, 64), Repeat(97, 65)}

NameTexts == NameCores \cup {<<32>>, <<32, 65, 108, 9>>, <<12288, 97, 108>>}

Ctors == {"UserName", "EmailAddress", "PhoneNumber", "UserPassword",
          "UserFullName"}

\* the text arguments a constructor is called with
CtorArgs(ctor) ==
  CASE ctor = "UserName" -> {<<t>> : t \in Padded(HandleCores)}
    [] ctor = "EmailAddress" -> {<<t>> : t \in Padded(EmailCores)}
    [] ctor = "PhoneNumber" -> {<<t>> : t \in Padded(PhoneCores)}
    [] ctor = "UserPassword" ->
         {<<t, u>> : t \in Padded(PasswordCores), u \in {s_usr, s_bob}}
    [] ctor = "UserFullName" ->
         {<<f, m, l>> : f \in NameTexts, m \in NameCores, l \in NameTexts}

\* the constructor call: UserPassword::new is called without a birth date
\* and with an estimate at the threshold
CtorCall(ctor, args, required) ==
  CASE ctor = "UserName" -> UserNameNew(args[1], required)
    [] ctor = "EmailAddress" -> EmailAddressNew(args[1], required)
    [] ctor = "PhoneNumber" -> PhoneNumberNew(args[1], required)
    [] ctor = "UserPassword" ->
         UserPasswordNew(args[1], required, args[2], None, MIN_ZXCVBN_SCORE)
    [] ctor = "UserFullName" -> UserFullNameNew(args[1], args[2], args[3])

InitValues ==
  /\ vCtor \in Ctors
  /\ vArgs \in CtorArgs(vCtor)
  /\ vRequired \in (IF vCtor = "UserFullName" THEN {FALSE} ELSE BOOLEAN)
  /\ vPc = "start"
  /\ vResult = None
  /\ PwIdle
  /\ HashIdle
  /\ RegIdle
  /\ ArtIdle
  /\ ReadIdle
  /\ WalkIdle
  /\ ErrIdle

\* the call of constructor ctor returns
Construct(ctor) ==
  /\ vPc = "start"
  /\ vCtor = ctor
  /\ vResult' = CtorCall(ctor, vArgs, vRequired)
  /\ vPc' = "returned"
  /\ UNCHANGED <<vCtor, vArgs, vRequired>>
  /\ UNCHANGED <<pwVars, hashVars, storeVars, callVars, artVars, readVars,
                 walkVars, errVars>>

UserName_new == Construct("UserName")

EmailAddress_new == Construct("EmailAddress")

PhoneNumber_new == Construct("PhoneNumber")

UserPassword_new_value == Construct("UserPassword")

UserFullName_new == Construct("UserFullName")

NextValues ==
  \/ UserName_new
  \/ EmailAddress_new
  \/ PhoneNumber_new
  \/ UserPassword_new_value
  \/ UserFullName_new

SpecValues == InitValues /\ [][NextValues]_vars

(***************************************************************************)
(* infra/pg/user_repo.rs: reading a users row                              *)
(***************************************************************************)
\* PublicId::from_string: trim, 21 bytes, the Nanoid alphabet [A-Za-z0-9_-]
PublicIdFromString(input, required) ==
  LET t == Trim(input)
  IN  IF ~required /\ t = <<>> THEN None
      ELSE IF ByteLen(t) # 21 THEN Err(<<"public_id", "length">>)
      ELSE IF \A i \in 1..Len(t) : IsWordChar(t[i]) \/ t[i] = 45
        THEN Some(t)
      ELSE Err(<<"public_id", "pattern">>)

\* Option<String>.and_then(|e| F(e, true).transpose()).transpose()?
RequiredField(o, constructed) == IF o = None THEN None ELSE constructed

\* impl TryFrom<UserRow> for User: the fields are evaluated in the order
\* written, `?` returns the first error, and a panic of UserStatus::from or
\* UserRole::from unwinds through try_from
TryFromUserRow(r) ==
  LET user_id == UserIdNew(r.user_id)
      public_id == PublicIdFromString(r.public_id, TRUE)
      user_name == UserNameNew(r.user_name, TRUE)
      full_name ==
        IF /\ r.first_name # None /\ r.last_name # None
           /\ (r.first_name.value # <<>> \/ r.last_name.value # <<>>)
          THEN UserFullNameNew(r.first_name.value, <<>>, r.last_name.value)
          ELSE None
      email == RequiredField(r.email,
                             EmailAddressNew(UnwrapOrDefault(r.email), TRUE))
      phone == RequiredField(r.phone,
                             PhoneNumberNew(UnwrapOrDefault(r.phone), TRUE))
      status == UserStatusFromI16(r.status)
      role == UserRoleFromI16(r.role)
  IN  IF user_id.kind = "Err" THEN user_id
      ELSE IF public_id.kind = "Err" THEN public_id
      ELSE IF user_name.kind = "Err" THEN user_name
      ELSE IF full_name.kind = "Err" THEN full_name
      ELSE IF email.kind = "Err" THEN email
      ELSE IF phone.kind = "Err" THEN phone
      ELSE IF status.kind = "Panic" THEN status
      ELSE IF role.kind = "Panic" THEN role
      ELSE Some([user_id |-> user_id.value,
                 public_id |-> public_id.value,
                 randomart |-> r.randomart,
                 user_name |-> user_name.value,
                 full_name |-> full_name,
                 email |-> email,
                 phone |-> phone,
                 birth_date |-> r.birth_date,
                 status |-> status.value,
                 role |-> role.value,
                 last_login_at |-> r.last_login_at,
                 created_at |-> r.created_at,
                 updated_at |-> r.updated_at])

\* the i16 values a status or role column holds
StoredCodes == {-32768, -1, 0, 1, 2, 3, 4, 5, 6, 32767}

\* rows of table users as another writer may have left them
StoredRows ==
  [user_id : {1},
   public_id : {Repeat(97, 21), Repeat(97, 20)},
   randomart : {<<>>},
   user_name : {s_bob, <<97, 98>>},
   first_name : {None, Some(<<65, 108>>)},
   last_name : {None, Some(<<>>), Some(<<76, 105>>)},
   email : {None, Some(s_email), Some(<<>>)},
   phone : {None, Some(s_phone)},
   birth_date : {None},
   status : StoredCodes,
   role : StoredCodes,
   last_login_at : {None},
   created_at : {0},
   updated_at : {0}]

InitRead ==
  /\ rdRow \in StoredRows
  /\ rdOp = "none"
  /\ rdPc = "start"
  /\ rdResult = None
  /\ PwIdle
  /\ HashIdle
  /\ RegIdle
  /\ ValIdle
  /\ ArtIdle
  /\ WalkIdle
  /\ ErrIdle

\* fetch_optional of "SELECT .. WHERE <key> AND status = 0", then
\* row.map(TryInto::try_into).transpose(); selected says whether the key
\* of the query is that of the stored row
ReadRow(op, selected) ==
  /\ rdPc = "start"
  /\ rdOp' = op
  /\ rdResult' = IF selected /\ rdRow.status = 0
                   THEN TryFromUserRow(rdRow)
                   ELSE None
  /\ rdPc' = "returned"
  /\ UNCHANGED rdRow
  /\ UNCHANGED <<pwVars, hashVars, storeVars, callVars, valVars, artVars,
                 walkVars, errVars>>

find_by_user_id == \E id \in {1, 2} : ReadRow("find_by_user_id", id = rdRow.user_id)

find_by_username ==
  \E name \in {s_bob, <<97, 98>>, s_usr} :
    ReadRow("find_by_username", name = rdRow.user_name)

NextRead ==
  \/ find_by_user_id
  \/ find_by_username

SpecRead == InitRead /\ [][NextRead]_vars

(***************************************************************************)
(* infra/pg/user_repo.rs over the table a register call writes             *)
(***************************************************************************)
\* PublicId::as_str of the identifier p: 21 characters of the Nanoid
\* alphabet, different for different p
PublicIdAsStr(p) == Repeat(97, 20) \o <<64 + p>>

\* the UserRow that query_as! fetches for the stored row r
FetchedRow(r) == [r EXCEPT !.public_id = PublicIdAsStr(@)]

\* "AND status = 0" leaving every row in
StatusIsActive_any(r) == TRUE

\* the condition "AND status = 0" of both SELECT statements
StatusIsActive(r) == r.status = 0

UserStatuses ==
  {"Active", "Pending", "Deactivated", "Suspended", "Deleted", "Archived"}

InitStore == Init

\* fetch_optional(&self.pool) of "SELECT .. WHERE <key> AND status = 0" on
\* the committed table, then row.map(TryInto::try_into).transpose();
\* keyed is the set of committed rows with the key of the query (the keys
\* are unique), kept in rdRow
FindRow(op, keyed) ==
  LET selected == {r \in keyed : StatusIsActive(r)}
  IN  /\ rdOp' = op
      /\ rdRow' = IF keyed = {} THEN None ELSE CHOOSE r \in keyed : TRUE
      /\ rdResult' = IF selected = {} THEN None
                      ELSE TryFromUserRow(FetchedRow(CHOOSE r \in selected : TRUE))
      /\ rdPc' = "returned"
      /\ UNCHANGED <<pwVars, hashVars, storeVars, callVars, valVars, artVars,
                     walkVars, errVars>>

store_find_by_user_id ==
  \E id \in {1, 2} : FindRow("find_by_user_id", {r \in users : r.user_id = id})

store_find_by_username ==
  \E name \in {s_bob, s_usr, <<97, 98>>} :
    FindRow("find_by_username", {r \in users : r.user_name = name})

\* update_status(u): "UPDATE users SET status = $1, updated_at = $2 WHERE
\* user_id = $3" on the pool, with u.status, Utc::now() and u.user_id
update_status ==
  \E id \in {1, 2} : \E st \in UserStatuses :
    /\ users' = {IF r.user_id = id
                   THEN [r EXCEPT !.status = StatusToI16(st),
                                  !.updated_at = clock]
                   ELSE r : r \in users}
    /\ UNCHANGED <<auths, seq>>
    /\ UNCHANGED <<pwVars, hashVars, callVars, auxVars>>

\* one register call, with lookups and status updates at any time
NextStore ==
  \/ \E c \in {1} :
       \/ BuildRejected(c)
       \/ BuildOk(c)
       \/ BeginOk(c)
       \/ BeginFail(c)
       \/ InsertUserOk(c)
       \/ InsertUserFail(c)
       \/ InsertAuthOk(c)
       \/ InsertAuthFail(c)
       \/ CommitOk(c)
       \/ CommitFail(c)
  \/ store_find_by_user_id
  \/ store_find_by_username
  \/ update_status

SpecStore == InitStore /\ [][NextStore]_vars

(***************************************************************************)
(* An error on its way to the HTTP response                                *)
(***************************************************************************)
\* sqlx::Error values of every arm of From<SqlxError>: the variants without
\* data, Database errors with and without a code, Io errors of several
\* kinds, and variants of the catch-all arm, each with and without
\* "timeout" in its text
AllSqlxErrors ==
  {SqlxError(e, "", FALSE) :
     e \in {"RowNotFound", "PoolTimedOut", "PoolClosed", "WorkerCrashed"}}
    \cup {SqlxError("Database", code, t) :
            code \in {"23505", "23503", "23502", "23514", "40001", "42P01",
                      "57014", ""},
            t \in BOOLEAN}
    \cup {SqlxError("Io", kind, t) :
            kind \in {"TimedOut", "ConnectionReset", "BrokenPipe",
                      "UnexpectedEof"},
            t \in BOOLEAN}
    \cup {SqlxError(e, "", t) :
            e \in {"Protocol", "Tls", "Configuration", "Decode",
                   "ColumnNotFound", "TypeNotFound"},
            t \in BOOLEAN}

AppErrorVariants ==
  {"BadRequest", "Unauthorized", "Forbidden", "NotFound", "RequestTimeout",
   "Conflict", "ImATeapot", "UnprocessableContent", "InternalServerError"}

\* AppError values built directly, with and without a detail
DirectAppErrors ==
  [variant : AppErrorVariants,
   detail : {None, Some("detail of the error")}]

\* the AppError value of the conversion result r
AppErrorOf(r) == [variant |-> r.variant, detail |-> Some(r.reason)]

InitError ==
  /\ \/ /\ eSrc \in AllSqlxErrors
        /\ eApp = None
        /\ ePc = "raised"
     \/ /\ eSrc = None
        /\ eApp \in DirectAppErrors
        /\ ePc = "converted"
  /\ eBody = None
  /\ PwIdle
  /\ HashIdle
  /\ RegIdle
  /\ ValIdle
  /\ ArtIdle
  /\ ReadIdle
  /\ WalkIdle

\* .map_err(AppError::from) on a store call
FromSqlxError ==
  /\ ePc = "raised"
  /\ eApp' = AppErrorOf(AppErrorFromSqlx(eSrc))
  /\ ePc' = "converted"
  /\ UNCHANGED <<eSrc, eBody>>
  /\ UNCHANGED <<pwVars, hashVars, storeVars, callVars, valVars, artVars,
                 readVars, walkVars>>

\* the handler returned Err(eApp): axum calls into_response
IntoResponse ==
  /\ ePc = "converted"
  /\ eBody' = into_response(eApp)
  /\ ePc' = "responded"
  /\ UNCHANGED <<eSrc, eApp>>
  /\ UNCHANGED <<pwVars, hashVars, storeVars, callVars, valVars, artVars,
                 readVars, walkVars>>

NextError ==
  \/ FromSqlxError
  \/ IntoResponse

SpecError == InitError /\ [][NextError]_vars

(***************************************************************************)
(* Properties                                                              *)
(***************************************************************************)
\* the last store operation call c issued
LastOp(c) == ops[c][Len(ops[c])]

\* C1: in every committed state of the store a users row with key k exists
\* if and only if a user_auths row with key k exists, whatever the
\* interleaving of the register calls and whichever store operation fails.
C1_IdentityIffCredential ==
  {u.user_id : u \in users} = {a.user_id : a \in auths}

\* a call has committed its pair while another failed at the Credential
\* insert, after its Identity insert had succeeded
C1_Witness ==
  \E c, d \in Calls :
    /\ pc[c] = "done"
    /\ \E u \in users : u.call = c
    /\ pc[d] = "failed"
    /\ LastOp(d).op = "insert_auth" /\ ~LastOp(d).ok

\* C2: a register call that fails at the Identity insert, the Credential
\* insert or commit leaves the committed store as it was, and no row written
\* by that call is visible afterwards.
C2_FailureLeavesStoreUnchanged ==
  [][\A c \in Calls :
       (pc[c] \in {"insert_user", "insert_auth", "commit"} /\ pc'[c] = "failed")
         => /\ users' = users
            /\ auths' = auths
            /\ \A u \in users' : u.call # c
            /\ \A a \in auths' : a.call # c]_vars

\* a call has failed at the Credential insert, its Identity insert having
\* succeeded, and none of its rows is in the store
C2_Witness ==
  \E c \in Calls :
    /\ pc[c] = "failed"
    /\ Len(ops[c]) = 3
    /\ ops[c][2].op = "insert_user" /\ ops[c][2].ok
    /\ LastOp(c).op = "insert_auth" /\ ~LastOp(c).ok
    /\ \A u \in users : u.call # c

\* C3: when a value constructor or the password pipeline rejects the request
\* inside build_entities, register returns that rejection and has issued no
\* store operation: no begin, no insert.
C3_RejectionBeforePersistence ==
  \A c \in Calls :
    pc[c] = "rejected"
      => /\ ops[c] = <<>>
         /\ tx[c] = NoTx
         /\ result[c] = build_entities(req[c], clock, nextPid)
         /\ result[c].kind = "Err"
         /\ \A u \in users : u.call # c

\* one call was rejected by the password pipeline and one by a value
\* constructor
C3_Witness ==
  \E c, d \in Calls :
    /\ pc[c] = "rejected" /\ req[c].password = s_bob12345
    /\ pc[d] = "rejected" /\ req[d].user_name = <<97, 98>>
    /\ ops[c] = <<>> /\ ops[d] = <<>>

\* C4: the Credential's current secret, as held after the password pipeline
\* succeeded and as written to the store, is the output of the hashing step
\* and never the trimmed plaintext secret.
C4_StoredSecretIsHash ==
  /\ \A c \in Calls :
       auth[c] # None
         => /\ auth[c].current_hash # Trim(req[c].password)
            /\ \E salt \in 1..NumSalts :
                 auth[c].current_hash = hashing(Trim(req[c].password), salt)
  /\ \A a \in auths :
       a.current_hashed_password # Trim(req[a.call].password)

\* C5: on every exit path of UserPassword::new the plaintext buffer has been
\* overwritten with zeros before the function returns.
C5_PlaintextZeroedOnReturn ==
  pwPc = "returned" => \A i \in 1..Len(pwBuf) : pwBuf[i] = 0

\* the result the order of checks stated in the specification gives: trim,
\* empty-and-not-required, length, forbidden character, contextual content,
\* strength
SpecifiedOrderResult(input, required, user_name, birth_date, score) ==
  LET password == Trim(input)
      lower_password == ToLowercase(password)
  IN  IF password = <<>> /\ ~required THEN None
      ELSE IF LengthRejected(password) THEN Err(<<"user_password", "length">>)
      ELSE IF HasForbiddenChar(lower_password) THEN Err(<<"user_password", "forbidden">>)
      ELSE IF ContainsUserName(lower_password, user_name) THEN Err(<<"user_password", "username">>)
      ELSE IF ContainsBirthDate(lower_password, birth_date) THEN Err(<<"user_password", "birthdate">>)
      ELSE IF score < MIN_ZXCVBN_SCORE THEN Err(<<"user_password", "strength">>)
      ELSE Some(password)

\* C6: UserPassword::new applies its checks in the order trim, empty and not
\* required, length, forbidden character, contextual content, strength, and
\* returns the rejection of the first that fails; a secret of valid length
\* with a forbidden character and the handle is rejected as forbidden.
C6_ChecksInSpecifiedOrder ==
  pwPc = "returned"
    => pwResult =
         SpecifiedOrderResult(pwInput, pwRequired, pwUserName, pwBirth, pwScore)

\* C7: the length check rejects the trimmed secret if and only if its length
\* in characters is outside [8,64], whatever its length in bytes.
C7_LengthCountsCharacters ==
  (pwPc = "returned" /\ ~(Trim(pwInput) = <<>> /\ ~pwRequired))
    => (pwResult = Err(<<"user_password", "length">>)
          <=> CharLen(Trim(pwInput)) \notin MIN_LEN..MAX_LEN)

\* C8: with required = true, every secret whose lower-cased form contains the
\* lower-cased handle, or which contains the birth date as YYYYMMDD or MMDD,
\* is rejected; the call never returns a value or absent.
C8_ContextualSecretRejected ==
  ( /\ pwPc = "returned"
    /\ pwRequired
    /\ \/ Contains(ToLowercase(pwInput), ToLowercase(pwUserName))
       \/ ContainsBirthDate(pwInput, pwBirth) )
    => pwResult.kind = "Err"

\* C9: for the hash h of secret p under any salt, verify_hashed(q, h)
\* succeeds if and only if q = p; in particular two hashes of one secret
\* under different salts both verify against it.
C9_VerifyIffSameSecret ==
  \A i \in 1..Len(hVerified) :
    (hVerified[i].kind = "Ok") <=> (hCandidate = hPlain)

\* two hashes of one secret were made with different salts, they differ, and
\* both were verified against that secret
C9_Witness ==
  /\ Len(hVerified) = 2
  /\ hSalts[1] # hSalts[2]
  /\ hHashes[1] # hHashes[2]
  /\ hCandidate = hPlain
  /\ hVerified[1].kind = "Ok"
  /\ hVerified[2].kind = "Ok"

\* the lines of a text, split at '\n'
ArtLines(s) ==
  LET nl == {i \in 1..Len(s) : s[i] = 10}
      starts == {1} \cup {i + 1 : i \in nl}
      StartOf(k) ==
        CHOOSE a \in starts : Cardinality({b \in starts : b < a}) = k - 1
      EndOf(a) ==
        IF \E i \in nl : i >= a
          THEN (CHOOSE i \in nl : i >= a /\ \A j \in nl : j >= a => i <= j) - 1
          ELSE Len(s)
  IN  [k \in 1..Cardinality(starts) |-> SubSeq(s, StartOf(k), EndOf(StartOf(k)))]

\* line is '+', l dashes, the caption, r dashes, '+', with l and r at most
\* one apart
CenteredBorder(line, caption) ==
  \E l, r \in 0..25 :
    /\ l - r \in {-1, 0, 1}
    /\ line = <<43>> \o Repeat(45, l) \o caption \o Repeat(45, r) \o <<43>>

\* C11: for every public identifier generate_randomart returns exactly 11
\* lines (top border, 9 grid rows, bottom border), each exactly 25 characters
\* wide; the top border carries the caption [your_id] and the bottom border
\* the caption [SHA3-384], each centered between '+' corners with '-' padding
\* whose left and right lengths differ by at most one.
C11_ArtShape ==
  artPc = "returned" =>
    LET L == ArtLines(artOut)
    IN  /\ Len(L) = 11
        /\ \A i \in 1..Len(L) : Len(L[i]) = 25
        /\ CenteredBorder(L[1], <<91, 121, 111, 117, 114, 95, 105, 100, 93>>)
        /\ CenteredBorder(L[11], <<91, 83, 72, 65, 51, 45, 51, 56, 52, 93>>)
        /\ \A i \in 2..10 : L[i][1] = 124 /\ L[i][25] = 124

\* an art was returned whose walk ended away from the start cell
C11_Witness ==
  /\ artPc = "returned"
  /\ \E i \in 1..Len(artOut) : artOut[i] = 69
  /\ \E i \in 1..Len(artOut) : artOut[i] = 83

\* the handle rule as documented: alphanumerics and _ . + -, first and last
\* character alphanumeric or underscore, no two consecutive dots
HandleRule(t) ==
  /\ t # <<>>
  /\ \A i \in 1..Len(t) : IsWordPlusMinus(t[i]) \/ t[i] = 46
  /\ IsWordChar(t[1]) /\ IsWordChar(t[Len(t)])
  /\ \A i \in 1..(Len(t) - 1) : ~(t[i] = 46 /\ t[i + 1] = 46)

\* C12: for every text of length 3 to 64 that satisfies the handle rule,
\* UserName::new(s, true) succeeds and as_str of the result equals s.
C12_ValidHandleRoundTrips ==
  ( /\ vPc = "returned" /\ vCtor = "UserName" /\ vRequired
    /\ Len(vArgs[1]) \in 3..64
    /\ HandleRule(vArgs[1]) )
  => vResult = Some(vArgs[1])

\* C13: for the UserName, EmailAddress, PhoneNumber and UserPassword
\* constructors an input that is empty after trimming yields absent when
\* required is false and a rejection when required is true, never a value.
C13_EmptyInputAbsentOrRejected ==
  ( /\ vPc = "returned"
    /\ vCtor \in {"UserName", "EmailAddress", "PhoneNumber", "UserPassword"}
    /\ Trim(vArgs[1]) = <<>> )
  => IF vRequired THEN vResult.kind = "Err" ELSE vResult = None

\* a required secret of whitespace only was rejected
C13_Witness ==
  /\ vPc = "returned"
  /\ vCtor = "UserPassword"
  /\ vArgs[1] = <<9, 12288, 32>>
  /\ vRequired
  /\ vResult.kind = "Err"

\* the arguments with every validated text trimmed
TrimmedArgs(ctor, args) ==
  CASE ctor = "UserPassword" -> <<Trim(args[1]), args[2]>>
    [] ctor = "UserFullName" -> <<Trim(args[1]), Trim(args[2]), Trim(args[3])>>
    [] OTHER -> <<Trim(args[1])>>

\* an optional name component holding text t
NamePart(t) == IF t = <<>> THEN None ELSE Some(t)

C15_FullNameFirstRequired ==
  (vPc = "returned" /\ vCtor = "UserFullName") =>
    LET f == Trim(vArgs[1])
        m == Trim(vArgs[2])
        l == Trim(vArgs[3])
    IN  /\ (f = <<>> /\ m = <<>> /\ l = <<>>) => vResult = None
        /\ (f = <<>> /\ (m # <<>> \/ l # <<>>))
             => vResult = Err(<<"FirstName", "required">>)
        /\ (f # <<>> /\ \A x \in {f, m, l} : CharLen(x) <= 64)
             => vResult.kind = "Some" /\ vResult.value.first_name = f
        /\ vResult.kind = "Some" => vResult.value.first_name # <<>>

\* C15 as amended: a component longer than 64 is rejected first, naming that
\* component (first before middle before last); with every component at most
\* 64 long the result is absent when all three are empty, a rejection naming
\* the first name when only first is empty, and otherwise a FullName whose
\* first name is present.
C15_FullNameOutcomes ==
  (vPc = "returned" /\ vCtor = "UserFullName") =>
    LET f == Trim(vArgs[1])
        m == Trim(vArgs[2])
        l == Trim(vArgs[3])
    IN  /\ vResult.kind \in {"None", "Err", "Some"}
        /\ IF CharLen(f) > 64 THEN vResult = Err(<<"FirstName", "length">>)
           ELSE IF CharLen(m) > 64 THEN vResult = Err(<<"MiddleName", "length">>)
           ELSE IF CharLen(l) > 64 THEN vResult = Err(<<"LastName", "length">>)
           ELSE IF f = <<>> /\ m = <<>> /\ l = <<>> THEN vResult = None
           ELSE IF f = <<>> THEN vResult = Err(<<"FirstName", "required">>)
           ELSE vResult.kind = "Some" /\ vResult.value.first_name = f
        /\ vResult.kind = "Some" => vResult.value.first_name # <<>>

\* a call with a blank first name and a middle name was rejected, naming the
\* first name
C15_Witness ==
  /\ vPc = "returned"
  /\ vCtor = "UserFullName"
  /\ Trim(vArgs[1]) = <<>>
  /\ vArgs[2] = <<65, 108>>
  /\ vArgs[3] = <<>>
  /\ vResult = Err(<<"FirstName", "required">>)

\* the uncommitted and committed rows of table users, and of user_auths
AllUserRows == users \cup UNION {tx[c].users : c \in Calls}

AllAuthRows == auths \cup UNION {tx[c].auths : c \in Calls}

\* C16: every Identity/Credential pair produced by build_entities, and so
\* every pair persisted by register, has status Pending, role User, no
\* last-login timestamp, identical created/updated timestamps, both history
\* slots absent and a login-failure counter of 0.
C16_FreshPairDefaults ==
  /\ \A c \in Calls :
       user[c] # None =>
         /\ user[c].status = "Pending"
         /\ user[c].role = "User"
         /\ user[c].last_login_at = None
         /\ user[c].created_at = user[c].updated_at
         /\ auth[c].prev_hash1 = None
         /\ auth[c].prev_hash2 = None
         /\ auth[c].login_fail_times = 0
         /\ auth[c].created_at = auth[c].updated_at
  /\ \A u \in AllUserRows :
       /\ u.status = 1
       /\ u.role = 0
       /\ u.last_login_at = None
       /\ u.created_at = u.updated_at
  /\ \A a \in AllAuthRows :
       /\ a.prev_hashed_password_1 = None
       /\ a.prev_hashed_password_2 = None
       /\ a.login_fail_times = 0
       /\ a.created_at = a.updated_at

\* two registrations were committed, one of them with every optional field
C16_Witness ==
  /\ Cardinality(users) = 2
  /\ Cardinality(auths) = 2
  /\ \E u \in users : u.email # None /\ u.first_name # None

\* C17: the Credential row is inserted with exactly the key the store
\* returned for the Identity insert of the same transaction; the sentinel 0
\* is never the key of an inserted or persisted Credential.
C17_CredentialKeyIsIdentityKey ==
  /\ \A c \in Calls : \A a \in tx[c].auths :
       /\ a.user_id # 0
       /\ \E u \in tx[c].users : u.user_id = a.user_id
       /\ \A u \in tx[c].users : u.user_id = a.user_id
  /\ \A a \in auths :
       /\ a.user_id # 0
       /\ \E u \in users : u.call = a.call /\ u.user_id = a.user_id
  /\ \A c \in Calls : user[c] # None => auth[c].user_id = user[c].user_id

\* two registrations were committed, under different keys
C17_Witness ==
  /\ Cardinality(auths) = 2
  /\ \E a, b \in auths : a.user_id # b.user_id
  /\ \A c \in Calls : pc[c] = "done" /\ user[c].user_id # 0

\* the order of the store operations of one register call
OpOrder == <<"begin", "insert_user", "insert_auth", "commit">>

\* C18: within one register call the store operations occur in the order
\* begin, insert Identity, insert Credential, commit, each at most once, and
\* each later one is issued only if every earlier one succeeded.
C18_StoreOperationOrder ==
  \A c \in Calls :
    /\ Len(ops[c]) <= Len(OpOrder)
    /\ \A i \in 1..Len(ops[c]) :
         /\ ops[c][i].op = OpOrder[i]
         /\ i < Len(ops[c]) => ops[c][i].ok

\* one call ran all four operations, another stopped at a failed Identity
\* insert
C18_Witness ==
  \E c, d \in Calls :
    /\ pc[c] = "done" /\ Len(ops[c]) = 4
    /\ pc[d] = "failed" /\ Len(ops[d]) = 2 /\ ~ops[d][2].ok

\* C19: every storage failure raised during begin, an insert or commit
\* surfaces as Conflict (exactly the unique, foreign-key, not-null and check
\* violations), RequestTimeout (pool timeout, closed pool, timed-out I/O
\* among them) or InternalServerError, and in no other category.
C19_StorageFailureCategories ==
  \A c \in Calls :
    pc[c] = "failed" =>
      LET e == LastOp(c).err
          integrity == e.e = "Database"
                         /\ e.code \in {"23505", "23503", "23502", "23514"}
          unavailable == \/ e.e \in {"PoolTimedOut", "PoolClosed"}
                         \/ e.e = "Io" /\ e.code = "TimedOut"
      IN  /\ ~LastOp(c).ok
          /\ result[c].kind = "Err"
          /\ result[c].variant
               \in {"Conflict", "RequestTimeout", "InternalServerError"}
          /\ integrity <=> result[c].variant = "Conflict"
          /\ unavailable => result[c].variant = "RequestTimeout"

\* one call failed with a unique violation at the Identity insert, another
\* with a closed pool at begin
C19_Witness ==
  \E c, d \in Calls :
    /\ pc[c] = "failed" /\ LastOp(c).op = "insert_user"
    /\ LastOp(c).err.code = "23505" /\ result[c].variant = "Conflict"
    /\ pc[d] = "failed" /\ LastOp(d).op = "begin"
    /\ LastOp(d).err.e = "PoolClosed" /\ result[d].variant = "RequestTimeout"

\* C20: converting a stored integer to a status or a role fails cleanly
\* with an error value, without crashing, for every integer outside the six
\* mapped values: reading a row whose stored status or role is out of range
\* returns an error to the caller.
C20_OutOfRangeCodeIsError ==
  rdPc = "returned" =>
    /\ rdResult.kind # "Panic"
    /\ (rdResult # None /\ (rdRow.status \notin 0..5 \/ rdRow.role \notin 0..5))
         => rdResult.kind = "Err"

\* the handle of call c's request, trimmed
TrimmedHandle(c) == Trim(req[c].user_name)

\* call c was made with a handle of one or two characters after trimming
\* and a secret that is not blank
ShortHandleCall(c) ==
  /\ req[c] # None
  /\ TrimmedHandle(c) # <<>>
  /\ CharLen(TrimmedHandle(c)) < 3
  /\ Trim(req[c].password) # <<>>

\* C21: a register call whose handle is non-empty after trimming but shorter
\* than 3 characters, and whose secret is non-empty after trimming, fails
\* with the rejection of the handle's length whatever the secret is, before
\* any store operation: the handle is validated before the secret.
C21_ShortHandleRejectedFirst ==
  \A c \in Calls :
    ShortHandleCall(c)
      => /\ pc[c] = "rejected"
         /\ result[c] = Err(<<"user_name", "length">>)
         /\ ops[c] = <<>>

\* a short handle was rejected once with a secret the password rules accept
\* and once with a secret they reject for its length and for the handle in it
C21_Witness ==
  \E c, d \in Calls :
    /\ ShortHandleCall(c) /\ ShortHandleCall(d)
    /\ pc[c] = "rejected" /\ pc[d] = "rejected"
    /\ req[c].password = s_strong /\ req[c].score = 4
    /\ req[d].password = <<97, 98, 120>>
    /\ UserPasswordNew(req[d].password, TRUE, req[d].user_name,
                       req[d].birth_date, req[d].score).kind = "Err"

\* the position is a cell of the grid
InGrid(row, col) == row \in 0..(ROWS - 1) /\ col \in 0..(COLS - 1)

\* a coordinate moved by at most one
Adjacent(a, b) == a - b \in {-1, 0, 1}

\* C22: at every pass of the fingerprint walk the position is a cell of the
\* grid, 0 <= row <= 8 and 0 <= column <= 22, and a pass moves each
\* coordinate by at most one: a step that would leave the grid stays on the
\* border cell and never wraps around to the opposite side.
C22_WalkStaysInGrid ==
  [][bwPc = "walk"
       => /\ InGrid(bwRow, bwCol)
          /\ InGrid(bwRow', bwCol')
          /\ Adjacent(bwRow', bwRow)
          /\ Adjacent(bwCol', bwCol)]_vars

\* the walk has been clamped at a corner: it stands on a corner cell that
\* it has visited more than once
C22_Witness ==
  /\ bwPc = "walk"
  /\ bwRow \in {0, ROWS - 1}
  /\ bwCol \in {0, COLS - 1}
  /\ bwGrid[bwRow][bwCol] > 1

\* the bit pair that pass k (0..3) of the inner loop takes from byte: the
\* pairs are taken from the least significant upwards
BitPair(byte, k) == (byte \div (4 ^ k)) % 4

\* a coordinate moved by delta and kept within 0..max
MovedWithin(v, delta, max) ==
  IF v + delta < 0 THEN 0 ELSE IF v + delta > max THEN max ELSE v + delta

\* C23: for each digest byte the walk makes exactly four steps, taking the
\* byte's bit pairs from the least significant to the most significant; in
\* each step bit 0 of the pair selects the column delta (+1 if set, -1 if
\* clear), bit 1 the row delta (+1 if set, -1 if clear), and exactly one
\* counter, that of the cell arrived at after clamping, is incremented by
\* one while every other counter is unchanged.
C23_StepFollowsBitPair ==
  [][(bwPc = "walk" /\ bwByte < Len(bwData))
       => LET pair == BitPair(bwData[bwByte + 1], bwK)
              dx == IF pair % 2 = 1 THEN 1 ELSE -1
              dy == IF pair \div 2 = 1 THEN 1 ELSE -1
          IN  /\ bwK \in 0..3
              /\ bwK' = IF bwK = 3 THEN 0 ELSE bwK + 1
              /\ bwByte' = IF bwK = 3 THEN bwByte + 1 ELSE bwByte
              /\ bwCol' = MovedWithin(bwCol, dx, COLS - 1)
              /\ bwRow' = MovedWithin(bwRow, dy, ROWS - 1)
              /\ \A r \in 0..(ROWS - 1) : \A c \in 0..(COLS - 1) :
                   bwGrid'[r][c] =
                     IF r = bwRow' /\ c = bwCol' THEN bwGrid[r][c] + 1
                     ELSE bwGrid[r][c]]_vars

\* the first byte 0x1B has been walked: its pairs 11, 10, 01, 00 led over
\* (5,12), (6,11), (5,12) back to the centre (4,11)
C23_Witness ==
  /\ bwPc = "walk"
  /\ bwData[1] = 27
  /\ bwByte = 1
  /\ bwK = 0
  /\ bwRow = 4 /\ bwCol = 11
  /\ bwGrid[5][12] = 2
  /\ bwGrid[6][11] = 1
  /\ bwGrid[4][11] = 1

\* the character the art shows for cell (r, c) of the grid: line r + 2,
\* after the '|' that opens it
ShownCell(art, r, c) == ArtLines(art)[r + 2][c + 2]

\* the cells of the grid whose character in the art is ch
CellsShowing(art, ch) ==
  {rc \in (0..(ROWS - 1)) \X (0..(COLS - 1)) : ShownCell(art, rc[1], rc[2]) = ch}

\* C24: in the rendered art the centre cell (row 4, column 11) shows 'S'; if
\* the walk ends on another cell exactly one 'E' appears, at the final
\* position, and if it ends on the centre cell no 'E' appears; every other
\* cell shows the ramp glyph at index min(visit count, 14); the body holds
\* exactly one 'S' and at most one 'E'.
C24_StartAndEndMarkers ==
  bwPc = "returned" =>
    /\ Len(ArtLines(bwArt)) = ROWS + 2
    /\ CellsShowing(bwArt, 83) = {<<4, 11>>}
    /\ CellsShowing(bwArt, 69) = {bwEnd} \ {<<4, 11>>}
    /\ \A r \in 0..(ROWS - 1) : \A c \in 0..(COLS - 1) :
         <<r, c>> \notin {<<4, 11>>, bwEnd}
           => ShownCell(bwArt, r, c) =
                symbols[(IF bwGrid[r][c] < 14 THEN bwGrid[r][c] ELSE 14) + 1]

\* an art was rendered for a walk that ended on the centre cell, one of
\* whose cells was visited more than 14 times
C24_Witness ==
  /\ bwPc = "returned"
  /\ bwEnd = <<4, 11>>
  /\ \E r \in 0..(ROWS - 1) : \E c \in 0..(COLS - 1) : bwGrid[r][c] > 14

RECURSIVE SumSeq(_, _)
\* the sum of f[0] .. f[n]
SumSeq(f, n) == IF n < 0 THEN 0 ELSE f[n] + SumSeq(f, n - 1)

\* the sum of all visit counters of a grid
VisitSum(grid) ==
  SumSeq([r \in 0..(ROWS - 1) |-> SumSeq(grid[r], COLS - 1)], ROWS - 1)

\* C25: for the 48-byte SHA3-384 digest the walk makes exactly 192 steps
\* and after the walk the sum of all visit counters is 192; no counter
\* reaches the 8-bit maximum 255, so the saturating increment never
\* saturates.
C25_WalkOf192Steps ==
  /\ bwPc = "walk" => VisitSum(bwGrid) = 4 * bwByte + bwK
  /\ bwPc \in {"render", "returned"}
       => /\ Len(bwData) = 48
          /\ 4 * bwByte + bwK = 192
          /\ VisitSum(bwGrid) = 192
  /\ bwPc # "idle"
       => \A r \in 0..(ROWS - 1) : \A c \in 0..(COLS - 1) : bwGrid[r][c] < 255

\* a walk is done that stayed clamped in a corner: one counter exceeds 180
C25_Witness ==
  /\ bwPc = "render"
  /\ \E r \in {0, ROWS - 1} : \E c \in {0, COLS - 1} : bwGrid[r][c] > 180

\* C26: in register every secret whose lower-cased form contains the
\* lower-cased trimmed handle is rejected, also when the handle field of the
\* request carries leading or trailing whitespace that UserName::new trims
\* away.
C26_HandleInSecretRejected ==
  \A c \in Calls :
    ( /\ req[c] # None
      /\ TrimmedHandle(c) # <<>>
      /\ Contains(ToLowercase(req[c].password), ToLowercase(TrimmedHandle(c))) )
      => pc[c] = "rejected"

\* C27: an Identity written by the users insert and read back through the
\* row-to-User conversion has the first and last name it was written with;
\* an Identity whose FullName has a first name but no last name is read back
\* with a present FullName carrying that first name.
C27_NameSurvivesRoundTrip ==
  (rdPc = "returned" /\ rdResult.kind = "Some")
    => rdResult.value.full_name = user[rdRow.call].full_name

\* the row a lookup found by its key is as register committed it: no
\* update_status has touched it
AsRegistered(r) == r.updated_at = r.created_at

\* C28: find_by_user_id and find_by_username return an Identity only while
\* its stored status is Active (0); after a successful register, which
\* stores status Pending, both lookups for the new Identity return None
\* until a separate operation changes its status to Active.
C28_LookupOnlyActive ==
  (rdPc = "returned" /\ rdRow # None)
    => /\ rdResult # None => rdRow.status = 0
       /\ AsRegistered(rdRow) => (rdRow.status = 1 /\ rdResult = None)

\* the committed row of a register call was looked up by its handle
\* while Pending, and nothing was returned
C28_Witness ==
  /\ pc[1] = "done"
  /\ rdPc = "returned"
  /\ rdOp = "find_by_username"
  /\ rdRow \in users
  /\ AsRegistered(rdRow)
  /\ rdResult = None

\* the detail strings From<SqlxError> gives the categories that are not 5xx
FixedDetails ==
  {"Resource not found", "Database timeout", "Database pool closed",
   "Integrity violation"}

\* C29: no HTTP error body made from a storage failure holds the raw
\* storage error text: every error whose status is 5xx is rendered with no
\* detail, and every storage failure mapped to a category that is not 5xx
\* (Conflict, RequestTimeout, NotFound) carries only a fixed detail string
\* independent of the message of the underlying error.
C29_NoRawStorageText ==
  ePc = "responded" =>
    /\ eBody.status >= 500 => eBody.detail = None
    /\ eSrc # None =>
         /\ eBody.status \in {404, 408, 409, 500}
         /\ eBody.status < 500 =>
              /\ eBody.detail.kind = "Some"
              /\ eBody.detail.value \in FixedDetails
              /\ eBody.detail.value =
                   AppErrorFromSqlx([eSrc EXCEPT !.says_timeout = TRUE]).reason
         /\ eBody.detail # Some(SqlxToString(eSrc))
         /\ eBody.detail # Some("DB error: " \o SqlxToString(eSrc))
         /\ eBody.message # SqlxToString(eSrc)

\* a storage error of the catch-all arm, whose AppError holds the raw text,
\* was answered with status 500
C29_Witness ==
  /\ ePc = "responded"
  /\ eSrc # None
  /\ eSrc.e = "Protocol" /\ ~eSrc.says_timeout
  /\ eApp.detail = Some("DB error: " \o SqlxToString(eSrc))
  /\ eBody.status = 500

\* C30: for any interleaving of two or more concurrent register calls, each
\* committed Credential row carries the key of the Identity row inserted by
\* the same call and of no other call's Identity, distinct successful calls
\* obtain distinct keys, and each call's response carries the public
\* identifier and the fingerprint of its own Identity.
C30_CallsKeepToTheirOwnRows ==
  /\ \A a \in auths : \A u \in users :
       (u.user_id = a.user_id) <=> (u.call = a.call)
  /\ \A a \in auths : \E u \in users : u.call = a.call
  /\ \A u, v \in users :
       u.call # v.call => (u.user_id # v.user_id /\ u.public_id # v.public_id)
  /\ \A c \in Calls :
       pc[c] = "done" =>
         /\ result[c].kind = "Ok"
         /\ \E u \in users :
              /\ u.call = c
              /\ result[c].public_id = u.public_id
              /\ result[c].randomart = u.randomart
              /\ result[c].randomart = RandomartOf[u.public_id]

\* two calls ran interleaved and both succeeded: the call that generated
\* its public identifier first obtained its key second
C30_Witness ==
  \E u, v \in users :
    /\ u.call # v.call
    /\ pc[u.call] = "done" /\ pc[v.call] = "done"
    /\ u.public_id < v.public_id
    /\ u.user_id > v.user_id

====
